---- MODULE Spec2Model ----
(***************************************************************************)
(* A model of the lazy storage layer of ink!:                              *)
(*   core/src/storage/lazy/lazy_array.rs   LazyArray<T>, EntryArray<T>     *)
(*   core/src/storage2/collections/bitvec/mod.rs   Bitvec                  *)
(*   core/src/storage2/lazy/mod.rs          Lazy<T>                        *)
(*                                                                         *)
(* Option<X> is modelled as a sequence of length <= 1: <<>> is None and    *)
(* <<x>> is Some(x).  Keys are natural numbers and `key + n` is addition.  *)
(* The contract storage is a partial function from keys to cells; a cell   *)
(* that is absent from the domain is an empty (cleared) cell.              *)
(***************************************************************************)
EXTENDS Integers, Sequences, FiniteSets, TLC

(***************************************************************************)
(* Program constants and bounds of the model.                              *)
(***************************************************************************)
\* const CAPACITY: usize = 32
CAPACITY == 32
\* the footprint above which push_forward bails out of clearing
MaxClearFootprint == 32
\* number of operations performed on one array
MaxOps == 4
\* the number of bits in one pack of a Bitvec (Bits256)
PackBits == 256
\* number of operations performed on one Lazy
MaxLazyOps == 4
\* the length up to which the model lets a Bitvec grow; the u32 counters
\* of a Bitvec stay far from their wrap-around
MaxLen == 258

\* The values of the element type T used by the model.
Vals == {7, 42}
\* The indices the operations are called with: a middle slot, the last slot
\* and two indices that are out of bounds.
Indices == {5, 31, 32, 33}
\* footprint(T): a one-cell type, the largest footprint that is still
\* cleared, and the smallest one that is not.  Types without cells
\* (footprint 0) are left out.
Footprints == {1, 32, 33}
\* The base key of a storage-backed array.
BaseKey == 100
\* The keys the key pointer handed to push_forward stands at: the base key
\* of the array.
Cursors == {BaseKey}

\* The bit indices at which the model pushes or sets a 1 bit: the first and
\* the last bit of the first pack and the first bit of the second pack.
TruePos == {0, 255, 256}
\* The bit indices get and get_mut are called with.
BitIndices == {0, 255, 256, 1000}
\* The state of the hasher a Lazy is hashed into.
HasherState == 5
\* What the caller does with the BitAccess it got from get_mut, first_mut
\* or last_mut.
BitActs == {"get", "set", "reset"}

\* The keys the key pointer stands at in the runs with a free pointer: the
\* base key of the array and a key that is no slot's key for any footprint
\* of the model.
OtherCursors == {BaseKey, BaseKey + 7}

\* The number of unused bits in the last pack of the Bitvec close to
\* u32::MAX bits when the model starts.
TopGap == 6

\* The length up to which the model pushes after the u32 length has
\* wrapped to 0.
MaxWrapped == 2

None == <<>>
Some(x) == <<x>>
OptVals == {None} \cup {Some(v) : v \in Vals}

VARIABLES
    key,        \* LazyArray::key : Option<Key>
    footprint,  \* <T as StorageFootprint>::Value
    entries,    \* LazyArray::cached_entries.entries : [Option<Entry<T>>; 32]
    store,      \* the contract storage: key -> cell
    reads,      \* number of pull_forward calls issued so far, per key
    issued,     \* the store writes and clears issued by the latest operation
    last,       \* the latest operation, its arguments and its result
    panicked,   \* TRUE once an operation has panicked
    nops,       \* number of operations performed
    bv,         \* a Bitvec: [len |-> Lazy<u32>, bits |-> StorageVec<Bits256>]
    bv_last,    \* the latest operation on bv, its arguments and its result
    bv_panicked, \* TRUE once an operation on bv has panicked
    bv_pushes,  \* number of pushes on bv while no pop has happened, then 0
    bv_popped,  \* TRUE once pop has been called on bv
    lz_cell,    \* Lazy::cell : LazyCell<T>, its key and its cached entry
    lz_last,    \* the latest operation on the Lazy and its result
    lz_panicked, \* TRUE if the latest operation on the Lazy panicked
    lz_nops,    \* number of operations performed on the Lazy
    top,        \* a Bitvec near u32::MAX bits: its length and its pack count
    overflow_checks, \* the build: TRUE if integer overflow panics, FALSE if
                \* it wraps
    top_last    \* the latest operation on top and its result

arrayvars == <<key, footprint, entries, store, reads, issued, last,
               panicked, nops>>

bvvars == <<bv, bv_last, bv_panicked, bv_pushes, bv_popped>>

lzvars == <<lz_cell, lz_last, lz_panicked, lz_nops>>

topvars == <<top, overflow_checks, top_last>>

vars == <<arrayvars, bvvars, lzvars, topvars>>

(***************************************************************************)
(* Entry<T>: an optional value and its state.                              *)
(***************************************************************************)
Entry_new(value, state) == [value |-> value, state |-> state]

Entry_value(entry) == entry.value

Entry_is_mutated(entry) == entry.state = "Mutated"

Entry_set_state(entry, state) == [entry EXCEPT !.state = state]

\* Hands out a mutable handle to the value: the entry becomes Mutated.
Entry_value_mut(entry) == [entry EXCEPT !.state = "Mutated"]

\* Replaces the value and marks the entry Mutated; the caller gets the
\* previous value (entry.value).
Entry_put(entry, new_value) == [value |-> new_value, state |-> "Mutated"]

\* Removes the value and marks the entry Mutated; the caller gets the
\* previous value (entry.value).
Entry_take_value(entry) == [value |-> None, state |-> "Mutated"]

Entry_into_value(entry) == entry.value

(***************************************************************************)
(* The contract storage seen through PullForward / PushForward.            *)
(* A value v of T occupies footprint(T) consecutive cells; cell j of its   *)
(* encoding is <<v, j>>.                                                   *)
(***************************************************************************)
Encode(v, k, fp) == [c \in k..(k + fp - 1) |-> <<v, c - k>>]

\* <T as PushForward>::push_forward(value, &mut KeyPtr::from(key))
T_push_forward(st, v, k, fp) == Encode(v, k, fp) @@ st

\* <Option<T> as PullForward>::pull_forward(&mut KeyPtr::from(key)):
\* None if the first cell is empty, otherwise the value decoded from the
\* footprint(T) cells; decoding cells that do not hold one value panics.
Option_pull_forward(st, k, fp) ==
    IF k \notin DOMAIN st
    THEN [panic |-> FALSE, value |-> None]
    ELSE IF \E v \in Vals : \A j \in 0..(fp - 1) :
                 (k + j) \in DOMAIN st /\ st[k + j] = <<v, j>>
         THEN [panic |-> FALSE, value |-> Some(st[k][1])]
         ELSE [panic |-> TRUE, value |-> None]

CountRead(rd, k) ==
    IF k \in DOMAIN rd THEN [rd EXCEPT ![k] = @ + 1] ELSE (k :> 1) @@ rd

ReadsOf(rd, k) == IF k \in DOMAIN rd THEN rd[k] ELSE 0

(***************************************************************************)
(* EntryArray<T>                                                           *)
(***************************************************************************)
EntryArray_new == [i \in 0..(CAPACITY - 1) |-> None]

\* mem::replace(&mut self.entries[at], Some(Entry::new(new_value, Mutated)))
EntryArray_put(es, at, new_value) ==
    [es EXCEPT ![at] = Some(Entry_new(new_value, "Mutated"))]

\* The value EntryArray::put returns: the old value if any.
EntryArray_put_ret(es, at) ==
    IF es[at] = None THEN None ELSE Entry_into_value(es[at][1])

EntryArray_insert_entry(es, at, entry) == [es EXCEPT ![at] = Some(entry)]

EntryArray_get_entry_mut(es, at) ==
    IF at >= CAPACITY THEN None ELSE es[at]

(***************************************************************************)
(* LazyArray<T>                                                            *)
(***************************************************************************)
capacity == CAPACITY

\* <LazyArray<T> as StorageFootprint>::Value = Prod<T::Value, P32>
LazyArray_footprint == footprint * 32

\* key_at without the test for an index that is out of bounds.
key_at_unbounded(at) ==
    IF key = None THEN None
    ELSE Some(key[1] + at * footprint)

\* key_at that places the elements one cell too close to each other.
key_at_packed(at) ==
    IF at >= CAPACITY THEN None
    ELSE IF key = None THEN None
    ELSE Some(key[1] + at * (footprint - 1))

\* key_at without the scaling by footprint(T).
key_at_unscaled(at) ==
    IF at >= CAPACITY THEN None
    ELSE IF key = None THEN None
    ELSE Some(key[1] + at)

key_at(at) ==
    IF at >= capacity THEN None
    ELSE IF key = None THEN None
    ELSE Some(key[1] + at * footprint)

\* load_through_cache that caches an empty entry when there is no key to
\* load from.
load_through_cache_defaulting(es, rd, at) ==
    IF ~(at < CAPACITY)
    THEN [panic |-> TRUE, entries |-> es, reads |-> rd]
    ELSE IF EntryArray_get_entry_mut(es, at) # None
    THEN [panic |-> FALSE, entries |-> es, reads |-> rd]
    ELSE IF key_at(at) = None
    THEN [panic |-> FALSE,
          entries |-> EntryArray_insert_entry(
                          es, at, Entry_new(None, "Preserved")),
          reads |-> rd]
    ELSE LET k == key_at(at)[1]
             pulled == Option_pull_forward(store, k, footprint)
         IN  IF pulled.panic
             THEN [panic |-> TRUE, entries |-> es, reads |-> CountRead(rd, k)]
             ELSE [panic |-> FALSE,
                   entries |-> EntryArray_insert_entry(
                                   es, at, Entry_new(pulled.value, "Preserved")),
                   reads |-> CountRead(rd, k)]

\* load_through_cache that does not look into the cache first.
load_through_cache_uncached(es, rd, at) ==
    IF ~(at < CAPACITY)
    THEN [panic |-> TRUE, entries |-> es, reads |-> rd]
    ELSE IF key_at(at) = None
    THEN [panic |-> TRUE, entries |-> es, reads |-> rd]
    ELSE LET k == key_at(at)[1]
             pulled == Option_pull_forward(store, k, footprint)
         IN  IF pulled.panic
             THEN [panic |-> TRUE, entries |-> es, reads |-> CountRead(rd, k)]
             ELSE [panic |-> FALSE,
                   entries |-> EntryArray_insert_entry(
                                   es, at, Entry_new(pulled.value, "Preserved")),
                   reads |-> CountRead(rd, k)]

\* load_through_cache(at), started with the cache es and the read counts rd.
\* The result holds the cache and the read counts the call leaves behind
\* and says whether the call panicked.
load_through_cache(es, rd, at) ==
    IF ~(at < capacity)
    THEN [panic |-> TRUE, entries |-> es, reads |-> rd]
    ELSE IF EntryArray_get_entry_mut(es, at) # None
    THEN [panic |-> FALSE, entries |-> es, reads |-> rd]
    ELSE IF key_at(at) = None
    THEN [panic |-> TRUE, entries |-> es, reads |-> rd]
    ELSE LET k == key_at(at)[1]
             pulled == Option_pull_forward(store, k, footprint)
         IN  IF pulled.panic
             THEN [panic |-> TRUE, entries |-> es, reads |-> CountRead(rd, k)]
             ELSE [panic |-> FALSE,
                   entries |-> EntryArray_insert_entry(
                                   es, at, Entry_new(pulled.value, "Preserved")),
                   reads |-> CountRead(rd, k)]

\* The outcome of an operation on the cache: whether it panicked, the cache
\* and the read counts it leaves behind, and the value it returns.
Outcome(panic, es, rd, ret) ==
    [panic |-> panic, entries |-> es, reads |-> rd, ret |-> ret]

\* pub fn get(&self, at: Index) -> Option<&T>
get(es, rd, at) ==
    LET l == load_through_cache(es, rd, at)
    IN  IF l.panic
        THEN Outcome(TRUE, l.entries, l.reads, None)
        ELSE Outcome(FALSE, l.entries, l.reads, Entry_value(l.entries[at][1]))

\* get_mut that marks the entry only when the caller writes through the
\* handle.
get_mut_marking_on_write(es, rd, at, w) ==
    LET l == load_through_cache(es, rd, at)
    IN  IF l.panic
        THEN Outcome(TRUE, l.entries, l.reads, None)
        ELSE LET entry == l.entries[at][1]
                 written == IF w # None /\ Entry_value(entry) # None
                            THEN Entry_put(entry, w)
                            ELSE entry
             IN  Outcome(FALSE, [l.entries EXCEPT ![at] = Some(written)],
                         l.reads, Entry_value(entry))

\* pub fn get_mut(&mut self, at: Index) -> Option<&mut T>
\* The caller may write a value through the handle it gets: w is None when
\* it does not, Some(v) when it stores v; there is no handle to write
\* through when the slot holds no value.  ret is the value the handle
\* refers to when it is handed out.
get_mut(es, rd, at, w) ==
    LET l == load_through_cache(es, rd, at)
    IN  IF l.panic
        THEN Outcome(TRUE, l.entries, l.reads, None)
        ELSE LET entry == Entry_value_mut(l.entries[at][1])
                 written == IF w # None /\ Entry_value(entry) # None
                            THEN [entry EXCEPT !.value = w]
                            ELSE entry
             IN  Outcome(FALSE, [l.entries EXCEPT ![at] = Some(written)],
                         l.reads, Entry_value(entry))

\* put that loads the slot through the cache before it overwrites it.
put_loading(es, rd, at, new_value) ==
    LET l == load_through_cache(es, rd, at)
    IN  IF l.panic
        THEN Outcome(TRUE, l.entries, l.reads, None)
        ELSE Outcome(FALSE, EntryArray_put(l.entries, at, new_value),
                     l.reads, None)

\* pub fn put(&mut self, at: Index, new_value: Option<T>)
\* Indexing self.entries[at] panics when at is out of bounds.
put(es, rd, at, new_value) ==
    IF ~(at < CAPACITY)
    THEN Outcome(TRUE, es, rd, None)
    ELSE Outcome(FALSE, EntryArray_put(es, at, new_value), rd, None)

\* put_get that replaces the cached entry without loading the slot first.
put_get_uncached(es, rd, at, new_value) ==
    IF ~(at < CAPACITY)
    THEN Outcome(TRUE, es, rd, None)
    ELSE Outcome(FALSE, EntryArray_put(es, at, new_value), rd,
                 EntryArray_put_ret(es, at))

\* pub fn put_get(&mut self, at: Index, new_value: Option<T>) -> Option<T>
put_get(es, rd, at, new_value) ==
    LET l == load_through_cache(es, rd, at)
    IN  IF l.panic
        THEN Outcome(TRUE, l.entries, l.reads, None)
        ELSE LET entry == l.entries[at][1]
             IN  Outcome(FALSE,
                         [l.entries EXCEPT
                             ![at] = Some(Entry_put(entry, new_value))],
                         l.reads, Entry_value(entry))

\* take that removes the value and leaves the state of the entry as it was.
take_keeping_state(es, rd, at) ==
    LET l == load_through_cache(es, rd, at)
    IN  IF l.panic
        THEN Outcome(TRUE, l.entries, l.reads, None)
        ELSE LET entry == l.entries[at][1]
             IN  Outcome(FALSE,
                         [l.entries EXCEPT ![at] = Some([entry EXCEPT !.value = None])],
                         l.reads, Entry_value(entry))

\* pub fn take(&mut self, at: Index) -> Option<T>
take(es, rd, at) ==
    LET l == load_through_cache(es, rd, at)
    IN  IF l.panic
        THEN Outcome(TRUE, l.entries, l.reads, None)
        ELSE LET entry == l.entries[at][1]
             IN  Outcome(FALSE,
                         [l.entries EXCEPT
                             ![at] = Some(Entry_take_value(entry))],
                         l.reads, Entry_value(entry))

\* swap_entries that copies the value of a into b.
swap_entries_copying(es, a, b) ==
    LET loaded_a == Entry_value_mut(Entry_set_state(es[a][1], "Mutated"))
        loaded_b == Entry_put(es[b][1], Entry_value(es[a][1]))
    IN  [es EXCEPT ![a] = Some(loaded_a), ![b] = Some(loaded_b)]

\* The cache swap(a, b) leaves behind once both entries are loaded and at
\* least one of them holds a value.  Both entries are set to Mutated.  The
\* call core::mem::swap(&mut loaded_a.value_mut(), &mut loaded_b.value_mut())
\* then exchanges the two temporaries that hold the handles value_mut()
\* returned, not the values the handles refer to: the temporaries are dropped
\* at the end of the statement and the values stay where they were.
swap_entries(es, a, b) ==
    LET loaded_a == Entry_value_mut(Entry_set_state(es[a][1], "Mutated"))
        loaded_b == Entry_value_mut(Entry_set_state(es[b][1], "Mutated"))
    IN  [es EXCEPT ![a] = Some(loaded_a), ![b] = Some(loaded_b)]

\* swap that sets both entries to Mutated before it looks at their values.
swap_marking_first(es, rd, a, b) ==
    IF ~(a < CAPACITY) \/ ~(b < CAPACITY)
    THEN Outcome(TRUE, es, rd, None)
    ELSE IF a = b
    THEN Outcome(FALSE, es, rd, None)
    ELSE LET la == load_through_cache(es, rd, a)
             lb == load_through_cache(la.entries, la.reads, b)
         IN  IF la.panic
             THEN Outcome(TRUE, la.entries, la.reads, None)
             ELSE IF lb.panic
             THEN Outcome(TRUE, lb.entries, lb.reads, None)
             ELSE Outcome(FALSE, swap_entries(lb.entries, a, b), lb.reads,
                          None)

\* swap that tests a == b before it tests the bounds.
swap_equal_first(es, rd, a, b) ==
    IF a = b
    THEN Outcome(FALSE, es, rd, None)
    ELSE IF ~(a < CAPACITY) \/ ~(b < CAPACITY)
    THEN Outcome(TRUE, es, rd, None)
    ELSE LET la == load_through_cache(es, rd, a)
             lb == load_through_cache(la.entries, la.reads, b)
         IN  IF la.panic
             THEN Outcome(TRUE, la.entries, la.reads, None)
             ELSE IF lb.panic
             THEN Outcome(TRUE, lb.entries, lb.reads, None)
             ELSE IF /\ Entry_value(lb.entries[a][1]) = None
                     /\ Entry_value(lb.entries[b][1]) = None
             THEN Outcome(FALSE, lb.entries, lb.reads, None)
             ELSE Outcome(FALSE, swap_entries(lb.entries, a, b), lb.reads,
                          None)

\* pub fn swap(&mut self, a: Index, b: Index)
swap(es, rd, a, b) ==
    IF ~(a < capacity)
    THEN Outcome(TRUE, es, rd, None)
    ELSE IF ~(b < capacity)
    THEN Outcome(TRUE, es, rd, None)
    ELSE IF a = b
    THEN Outcome(FALSE, es, rd, None)
    ELSE LET la == load_through_cache(es, rd, a)
             lb == load_through_cache(la.entries, la.reads, b)
         IN  IF la.panic
             THEN Outcome(TRUE, la.entries, la.reads, None)
             ELSE IF lb.panic
             THEN Outcome(TRUE, lb.entries, lb.reads, None)
             ELSE IF /\ Entry_value(lb.entries[a][1]) = None
                     /\ Entry_value(lb.entries[b][1]) = None
             THEN Outcome(FALSE, lb.entries, lb.reads, None)
             ELSE Outcome(FALSE, swap_entries(lb.entries, a, b), lb.reads,
                          None)

StoreOp(name, index, k, value) ==
    [op |-> name, index |-> index, key |-> k, value |-> value]

\* for i in 0..footprint as u32 { env::clear_contract_storage(key + i) }
\* The loop clears the cells k, k + 1, ..., k + footprint - 1 in this order.
clear_cells(run, index, k) ==
    [store |-> [c \in (DOMAIN run.store) \ (k..(k + footprint - 1)) |->
                   run.store[c]],
     issued |-> run.issued \o
                [i \in 1..footprint |->
                    StoreOp("clear", index, k + (i - 1), None)]]

\* The loop of push_forward without the test for Mutated entries.
RECURSIVE push_forward_from_any_state(_, _, _, _)
push_forward_from_any_state(es, index, offset_key, run) ==
    IF index >= CAPACITY
    THEN run
    ELSE IF es[index] = None
    THEN push_forward_from_any_state(es, index + 1, offset_key, run)
    ELSE LET entry == es[index][1]
             k == offset_key + (index * footprint)
         IN  IF Entry_value(entry) # None
             THEN push_forward_from_any_state(
                      es, index + 1, offset_key,
                      [store |-> T_push_forward(run.store, Entry_value(entry)[1],
                                                k, footprint),
                       issued |-> Append(run.issued,
                                         StoreOp("write", index, k,
                                                 Entry_value(entry)))])
             ELSE IF footprint > MaxClearFootprint
             THEN run
             ELSE push_forward_from_any_state(es, index + 1, offset_key,
                                              clear_cells(run, index, k))

\* The loop of push_forward over the cached entries es, from slot index on;
\* run holds the storage and the store operations issued so far.
RECURSIVE push_forward_from(_, _, _, _)
push_forward_from(es, index, offset_key, run) ==
    IF index >= CAPACITY
    THEN run
    ELSE IF es[index] = None
    THEN push_forward_from(es, index + 1, offset_key, run)
    ELSE LET entry == es[index][1]
             k == offset_key + (index * footprint)
         IN  IF ~Entry_is_mutated(entry)
             THEN push_forward_from(es, index + 1, offset_key, run)
             ELSE IF Entry_value(entry) # None
             THEN push_forward_from(
                      es, index + 1, offset_key,
                      [store |-> T_push_forward(run.store, Entry_value(entry)[1],
                                                k, footprint),
                       issued |-> Append(run.issued,
                                         StoreOp("write", index, k,
                                                 Entry_value(entry)))])
             ELSE IF footprint > MaxClearFootprint
             THEN run
             ELSE push_forward_from(es, index + 1, offset_key,
                                    clear_cells(run, index, k))

\* push_forward that takes a Mutated slot whose value the storage already
\* holds for a Preserved one.
push_forward_skipping_written(es, st, offset_key) ==
    push_forward_from(
        [i \in DOMAIN es |->
            IF /\ es[i] # None
               /\ Entry_value(es[i][1]) # None
               /\ \A j \in 0..(footprint - 1) :
                      /\ (offset_key + i * footprint + j) \in DOMAIN st
                      /\ st[offset_key + i * footprint + j]
                             = <<Entry_value(es[i][1])[1], j>>
            THEN Some(Entry_set_state(es[i][1], "Preserved"))
            ELSE es[i]],
        0, offset_key, [store |-> st, issued |-> <<>>])

\* fn push_forward(&self, ptr: &mut KeyPtr), called on the cache es with the
\* storage st; offset_key is the key the pointer stands at
\* (ptr.next_for2::<Self>()).
push_forward(es, st, offset_key) ==
    push_forward_from(es, 0, offset_key, [store |-> st, issued |-> <<>>])

(***************************************************************************)
(* LazyCell<T>, the collaborator of Lazy<T>: an optional key and a cache   *)
(* of at most one Entry.                                                   *)
(***************************************************************************)
\* LazyCell::new(value): no key, the value is resident and yet to be
\* written.
LazyCell_new(value) ==
    [key |-> None, entry |-> Some(Entry_new(value, "Mutated"))]

\* LazyCell::lazy(key): bound to key, nothing cached.
LazyCell_lazy(k) == [key |-> Some(k), entry |-> None]

\* Loads the entry on the first access: a cached entry is kept, a cell
\* without key cannot load, else the value is pulled from the key and
\* cached as Preserved.
LazyCell_load(cell, st, rd) ==
    IF cell.entry # None
    THEN [panic |-> FALSE, cell |-> cell, reads |-> rd]
    ELSE IF cell.key = None
    THEN [panic |-> TRUE, cell |-> cell, reads |-> rd]
    ELSE LET pulled == Option_pull_forward(st, cell.key[1], footprint)
         IN  IF pulled.panic
             THEN [panic |-> TRUE, cell |-> cell,
                   reads |-> CountRead(rd, cell.key[1])]
             ELSE [panic |-> FALSE,
                   cell |-> [cell EXCEPT !.entry =
                                Some(Entry_new(pulled.value, "Preserved"))],
                   reads |-> CountRead(rd, cell.key[1])]

LzOutcome(panic, cell, rd, ret) ==
    [panic |-> panic, cell |-> cell, reads |-> rd, ret |-> ret]

\* LazyCell::get() -> Option<&T>
LazyCell_get(cell, st, rd) ==
    LET loaded == LazyCell_load(cell, st, rd)
    IN  IF loaded.panic
        THEN LzOutcome(TRUE, loaded.cell, loaded.reads, None)
        ELSE LzOutcome(FALSE, loaded.cell, loaded.reads,
                       Entry_value(loaded.cell.entry[1]))

\* LazyCell::get_mut() -> Option<&mut T>: the entry becomes Mutated.
LazyCell_get_mut(cell, st, rd) ==
    LET loaded == LazyCell_load(cell, st, rd)
    IN  IF loaded.panic
        THEN LzOutcome(TRUE, loaded.cell, loaded.reads, None)
        ELSE LzOutcome(FALSE,
                       [loaded.cell EXCEPT !.entry =
                           Some(Entry_value_mut(loaded.cell.entry[1]))],
                       loaded.reads,
                       Entry_value(loaded.cell.entry[1]))

\* <LazyCell<T> as PushForward>::push_forward(cell, ptr), with the pointer
\* standing at key k: nothing without a cached entry, nothing for a
\* Preserved entry; a Mutated entry is written, or its cells are cleared
\* when it holds None.
LazyCell_push_forward(cell, st, k) ==
    LET run == [store |-> st, issued |-> <<>>]
    IN  IF cell.entry = None
        THEN run
        ELSE IF ~Entry_is_mutated(cell.entry[1])
        THEN run
        ELSE IF Entry_value(cell.entry[1]) # None
        THEN [store |-> T_push_forward(st, Entry_value(cell.entry[1])[1],
                                       k, footprint),
              issued |-> <<StoreOp("write", 0, k,
                                   Entry_value(cell.entry[1]))>>]
        ELSE clear_cells(run, 0, k)

\* <LazyCell<T> as ClearForward>::clear_forward(cell, ptr), with the pointer
\* standing at key k.  LazyCell is not part of the sources and its clearing
\* is not described; what is known is the interface (the cell by shared
\* reference and the key pointer) and the store's clear(key), issued for
\* each of the footprint(T) cells of a value.  The outcomes the model
\* allows: the footprint(T) cells from k on are cleared, or no store
\* operation is issued.
LazyCell_clear_forward(cell, st, k) ==
    {clear_cells([store |-> st, issued |-> <<>>], 0, k),
     [store |-> st, issued |-> <<>>]}

(***************************************************************************)
(* Lazy<T> (storage2/lazy/mod.rs).                                         *)
(***************************************************************************)
Lazy_new(value) == LazyCell_new(Some(value))

Lazy_lazy(k) == LazyCell_lazy(k)

\* get that loads from the bound key on every call.
Lazy_get_reloading(cell, st, rd) ==
    LET got == LazyCell_get(IF cell.key = None THEN cell
                            ELSE [cell EXCEPT !.entry = None], st, rd)
    IN  IF got.panic \/ got.ret = None
        THEN LzOutcome(TRUE, got.cell, got.reads, None)
        ELSE got

\* get that answers the default value 0 of T where the cell has nothing,
\* in the place of the expect.
Lazy_get_defaulting(cell, st, rd) ==
    LET got == LazyCell_get(cell, st, rd)
    IN  IF ~got.panic /\ got.ret = None
        THEN LzOutcome(FALSE, got.cell, got.reads, Some(0))
        ELSE got

\* lazy.cell.get().expect("cannot lazily load value")
Lazy_get(cell, st, rd) ==
    LET got == LazyCell_get(cell, st, rd)
    IN  IF got.panic \/ got.ret = None
        THEN LzOutcome(TRUE, got.cell, got.reads, None)
        ELSE got

\* lazy.cell.get_mut().expect("cannot lazily load value"), and the caller
\* writing w, if any, through the reference it got.
Lazy_get_mut(cell, st, rd, w) ==
    LET got == LazyCell_get_mut(cell, st, rd)
    IN  IF got.panic \/ got.ret = None
        THEN LzOutcome(TRUE, got.cell, got.reads, None)
        ELSE IF w = None
        THEN got
        ELSE LzOutcome(FALSE,
                       [got.cell EXCEPT !.entry =
                           Some([got.cell.entry[1] EXCEPT !.value = w])],
                       got.reads, got.ret)

(***************************************************************************)
(* The traits of T that Lazy<T> forwards to, for T a type of small         *)
(* unsigned integers.                                                      *)
(***************************************************************************)
T_eq(x, y) == x = y

T_cmp(x, y) == IF x < y THEN "Less" ELSE IF x = y THEN "Equal" ELSE "Greater"

T_partial_cmp(x, y) == Some(T_cmp(x, y))

T_lt(x, y) == x < y

T_le(x, y) == x <= y

T_ge(x, y) == x >= y

T_gt(x, y) == x > y

\* Hash::hash: what the value feeds into the hasher state h.
T_hash(x, h) == (h * 31 + x) % 251

\* Display::fmt: the decimal digits of the value.
RECURSIVE T_fmt(_)
T_fmt(x) == IF x < 10 THEN <<x>> ELSE Append(T_fmt(x \div 10), x % 10)

\* eq that compares the two cells instead of the two values.
Lazy_eq_by_cell(cell, other, st, rd) ==
    LET self == Lazy_get(cell, st, rd)
    IN  IF self.panic
        THEN self
        ELSE LzOutcome(FALSE, self.cell, self.reads, Some(cell = other))

\* PartialEq::eq(Lazy::get(self), Lazy::get(other))
Lazy_eq(cell, other, st, rd) ==
    LET self == Lazy_get(cell, st, rd)
        them == Lazy_get(other, st, self.reads)
    IN  IF self.panic
        THEN self
        ELSE IF them.panic
        THEN LzOutcome(TRUE, self.cell, them.reads, None)
        ELSE LzOutcome(FALSE, self.cell, them.reads,
                       Some(T_eq(self.ret[1], them.ret[1])))

\* PartialOrd::partial_cmp(Lazy::get(self), Lazy::get(other))
Lazy_partial_cmp(cell, other, st, rd) ==
    LET self == Lazy_get(cell, st, rd)
        them == Lazy_get(other, st, self.reads)
    IN  IF self.panic
        THEN self
        ELSE IF them.panic
        THEN LzOutcome(TRUE, self.cell, them.reads, None)
        ELSE LzOutcome(FALSE, self.cell, them.reads,
                       Some(T_partial_cmp(self.ret[1], them.ret[1])))

\* PartialOrd::lt(Lazy::get(self), Lazy::get(other))
Lazy_lt(cell, other, st, rd) ==
    LET self == Lazy_get(cell, st, rd)
        them == Lazy_get(other, st, self.reads)
    IN  IF self.panic
        THEN self
        ELSE IF them.panic
        THEN LzOutcome(TRUE, self.cell, them.reads, None)
        ELSE LzOutcome(FALSE, self.cell, them.reads,
                       Some(T_lt(self.ret[1], them.ret[1])))

\* PartialOrd::le(Lazy::get(self), Lazy::get(other))
Lazy_le(cell, other, st, rd) ==
    LET self == Lazy_get(cell, st, rd)
        them == Lazy_get(other, st, self.reads)
    IN  IF self.panic
        THEN self
        ELSE IF them.panic
        THEN LzOutcome(TRUE, self.cell, them.reads, None)
        ELSE LzOutcome(FALSE, self.cell, them.reads,
                       Some(T_le(self.ret[1], them.ret[1])))

\* PartialOrd::ge(Lazy::get(self), Lazy::get(other))
Lazy_ge(cell, other, st, rd) ==
    LET self == Lazy_get(cell, st, rd)
        them == Lazy_get(other, st, self.reads)
    IN  IF self.panic
        THEN self
        ELSE IF them.panic
        THEN LzOutcome(TRUE, self.cell, them.reads, None)
        ELSE LzOutcome(FALSE, self.cell, them.reads,
                       Some(T_ge(self.ret[1], them.ret[1])))

\* PartialOrd::gt(Lazy::get(self), Lazy::get(other))
Lazy_gt(cell, other, st, rd) ==
    LET self == Lazy_get(cell, st, rd)
        them == Lazy_get(other, st, self.reads)
    IN  IF self.panic
        THEN self
        ELSE IF them.panic
        THEN LzOutcome(TRUE, self.cell, them.reads, None)
        ELSE LzOutcome(FALSE, self.cell, them.reads,
                       Some(T_gt(self.ret[1], them.ret[1])))

\* Ord::cmp(Lazy::get(self), Lazy::get(other))
Lazy_cmp(cell, other, st, rd) ==
    LET self == Lazy_get(cell, st, rd)
        them == Lazy_get(other, st, self.reads)
    IN  IF self.panic
        THEN self
        ELSE IF them.panic
        THEN LzOutcome(TRUE, self.cell, them.reads, None)
        ELSE LzOutcome(FALSE, self.cell, them.reads,
                       Some(T_cmp(self.ret[1], them.ret[1])))

\* core::fmt::Display::fmt(Lazy::get(self), f)
Lazy_fmt(cell, st, rd) ==
    LET self == Lazy_get(cell, st, rd)
    IN  IF self.panic
        THEN self
        ELSE LzOutcome(FALSE, self.cell, self.reads, Some(T_fmt(self.ret[1])))

\* Lazy::get(self).hash(state), with the hasher in state h
Lazy_hash(cell, h, st, rd) ==
    LET self == Lazy_get(cell, st, rd)
    IN  IF self.panic
        THEN self
        ELSE LzOutcome(FALSE, self.cell, self.reads,
                       Some(T_hash(self.ret[1], h)))

Lazy_as_ref(cell, st, rd) == Lazy_get(cell, st, rd)

Lazy_as_mut(cell, st, rd, w) == Lazy_get_mut(cell, st, rd, w)

Lazy_borrow(cell, st, rd) == Lazy_get(cell, st, rd)

Lazy_borrow_mut(cell, st, rd, w) == Lazy_get_mut(cell, st, rd, w)

Lazy_deref(cell, st, rd) == Lazy_get(cell, st, rd)

Lazy_deref_mut(cell, st, rd, w) == Lazy_get_mut(cell, st, rd, w)

\* <T as Default>::default()
T_default == 0

\* Lazy::default()
Lazy_default == Lazy_new(T_default)

\* Lazy::from(value)
Lazy_from(value) == Lazy_new(value)

\* push_forward that writes the cached value whatever the entry's state.
Lazy_push_forward_unconditional(cell, st, k) ==
    IF cell.entry = None
    THEN LazyCell_push_forward(cell, st, k)
    ELSE LazyCell_push_forward(
             [cell EXCEPT !.entry = Some(Entry_set_state(@[1], "Mutated"))],
             st, k)

\* fn push_forward(&self, ptr: &mut KeyPtr)
Lazy_push_forward(cell, st, k) == LazyCell_push_forward(cell, st, k)

\* fn clear_forward(&self, ptr: &mut KeyPtr)
Lazy_clear_forward(cell, st, k) == LazyCell_clear_forward(cell, st, k)

\* A Lazy that no operation is performed on.
LazyIdle ==
    /\ lz_cell = Lazy_lazy(BaseKey)
    /\ lz_last = [op |-> "lazy", w |-> None, ret |-> None, cursor |-> -1]
    /\ lz_panicked = FALSE
    /\ lz_nops = 0

(***************************************************************************)
(* Bits256, Pack and storage2 Vec, the collaborators of Bitvec.  A pack    *)
(* of 256 bits is the set of the positions of its 1 bits.  A vector of     *)
(* packs is its length and the packs that are not all-zero, by index.      *)
(***************************************************************************)
Bits256_default == {}

Bits256_get(bits256, pos) == pos \in bits256

Bits256_set(bits256, pos) == bits256 \cup {pos}

Bits256_reset(bits256, pos) == bits256 \ {pos}

StorageVec_new == [len |-> 0, packs |-> <<>>]

StorageVec_len(vec) == vec.len

\* Vec::get(index): None when index is not below the length.
StorageVec_get(vec, index) ==
    IF index < vec.len
    THEN Some(IF index \in DOMAIN vec.packs
              THEN vec.packs[index]
              ELSE Bits256_default)
    ELSE None

\* The vector after the pack at index, which is below the length, has
\* been changed to bits256 through Vec::get_mut.
StorageVec_set(vec, index, bits256) ==
    LET others == [i \in DOMAIN vec.packs \ {index} |-> vec.packs[i]]
    IN  [vec EXCEPT !.packs = IF bits256 = Bits256_default
                              THEN others
                              ELSE (index :> bits256) @@ others]

StorageVec_push(vec, bits256) ==
    StorageVec_set([vec EXCEPT !.len = @ + 1], vec.len, bits256)

(***************************************************************************)
(* Bitvec (storage2/collections/bitvec/mod.rs).                            *)
(***************************************************************************)
BvOutcome(panic, b, ret) == [panic |-> panic, bv |-> b, ret |-> ret]

Bitvec_new == [len |-> 0, bits |-> StorageVec_new]

Bitvec_len(b) == b.len

Bitvec_is_empty(b) == Bitvec_len(b) = 0

\* 2^32 / 256: the number of packs whose bit count no longer fits a u32.
U32Packs == 2^24

\* (self.bits.len() * 256) as u64: the product is taken in u32.  From 2^24
\* packs on it overflows: a build with overflow checks panics, a build
\* without wraps, and (n * 256) mod 2^32 is (n mod 2^24) * 256.
Bitvec_capacity(b, checks) ==
    [panic |-> checks /\ StorageVec_len(b.bits) >= U32Packs,
     value |-> (StorageVec_len(b.bits) % U32Packs) * PackBits]

Bitvec_split_index(b, at) ==
    IF at >= Bitvec_len(b)
    THEN None
    ELSE Some([index |-> at \div PackBits, bit |-> at % PackBits])

\* get_bits256(at): None when at is out of bounds, else the pack of the bit
\* and the position of the bit in it; a panic ("index is within bounds")
\* when the vector of packs has no such pack.  The index of the pack stands
\* for the reference to it.
Bitvec_get_bits256(b, at) ==
    LET split == Bitvec_split_index(b, at)
    IN  IF split = None
        THEN [panic |-> FALSE, ret |-> None]
        ELSE LET bits256 == StorageVec_get(b.bits, split[1].index)
             IN  IF bits256 = None
                 THEN [panic |-> TRUE, ret |-> None]
                 ELSE [panic |-> FALSE,
                       ret |-> Some([index |-> split[1].index,
                                     bits256 |-> bits256[1],
                                     pos256 |-> split[1].bit])]

Bitvec_get_bits256_mut(b, at) ==
    LET split == Bitvec_split_index(b, at)
    IN  IF split = None
        THEN [panic |-> FALSE, ret |-> None]
        ELSE LET bits256 == StorageVec_get(b.bits, split[1].index)
             IN  IF bits256 = None
                 THEN [panic |-> TRUE, ret |-> None]
                 ELSE [panic |-> FALSE,
                       ret |-> Some([index |-> split[1].index,
                                     bits256 |-> bits256[1],
                                     pos256 |-> split[1].bit])]

\* BitAccess::new(bits256, pos256): the pack, by its index, and the
\* position of the bit in the pack.
BitAccess_new(index, pos256) == [index |-> index, bit |-> pos256]

Bitvec_get_access_mut(b, at) ==
    LET got == Bitvec_get_bits256_mut(b, at)
    IN  IF got.panic
        THEN [panic |-> TRUE, access |-> None]
        ELSE IF got.ret = None
        THEN [panic |-> FALSE, access |-> None]
        ELSE [panic |-> FALSE,
              access |-> Some(BitAccess_new(got.ret[1].index,
                                            got.ret[1].pos256))]

BitAccess_get(b, access) ==
    Bits256_get(StorageVec_get(b.bits, access.index)[1], access.bit)

BitAccess_set(b, access) ==
    [b EXCEPT !.bits = StorageVec_set(
         @, access.index,
         Bits256_set(StorageVec_get(@, access.index)[1], access.bit))]

BitAccess_reset(b, access) ==
    [b EXCEPT !.bits = StorageVec_set(
         @, access.index,
         Bits256_reset(StorageVec_get(@, access.index)[1], access.bit))]

\* What the caller's use of a BitAccess leaves behind.
BitAccess_act(b, access, act) ==
    IF act = "set" THEN BitAccess_set(b, access)
    ELSE IF act = "reset" THEN BitAccess_reset(b, access)
    ELSE b

\* get without the test of the index against the length.
Bitvec_get_within_capacity(b, at) ==
    LET bits256 == StorageVec_get(b.bits, at \div PackBits)
    IN  IF bits256 = None
        THEN BvOutcome(FALSE, b, None)
        ELSE BvOutcome(FALSE, b,
                       Some(Bits256_get(bits256[1], at % PackBits)))

Bitvec_get(b, at) ==
    LET got == Bitvec_get_bits256(b, at)
    IN  IF got.panic
        THEN BvOutcome(TRUE, b, None)
        ELSE IF got.ret = None
        THEN BvOutcome(FALSE, b, None)
        ELSE BvOutcome(FALSE, b,
                       Some(Bits256_get(got.ret[1].bits256,
                                        got.ret[1].pos256)))

\* get_mut(at) and the caller's use of the access; ret is the bit as it was
\* when the access was handed out.
Bitvec_get_mut(b, at, act) ==
    LET got == Bitvec_get_access_mut(b, at)
    IN  IF got.panic
        THEN BvOutcome(TRUE, b, None)
        ELSE IF got.access = None
        THEN BvOutcome(FALSE, b, None)
        ELSE BvOutcome(FALSE, BitAccess_act(b, got.access[1], act),
                       Some(BitAccess_get(b, got.access[1])))

Bitvec_first(b) ==
    IF Bitvec_is_empty(b)
    THEN BvOutcome(FALSE, b, None)
    ELSE Bitvec_get(b, 0)

Bitvec_first_mut(b, act) ==
    IF Bitvec_is_empty(b)
    THEN BvOutcome(FALSE, b, None)
    ELSE Bitvec_get_mut(b, 0, act)

Bitvec_last(b) ==
    IF Bitvec_is_empty(b)
    THEN BvOutcome(FALSE, b, None)
    ELSE Bitvec_get(b, Bitvec_len(b) - 1)

Bitvec_last_mut(b, act) ==
    IF Bitvec_is_empty(b)
    THEN BvOutcome(FALSE, b, None)
    ELSE Bitvec_get_mut(b, Bitvec_len(b) - 1, act)

\* *self.len += 1 on the u32 length x: at u32::MAX, where x \div 256 is
\* 2^24 - 1 and x % 256 is 255, the sum overflows, which panics in a build
\* with overflow checks and wraps to 0 in a build without.
Bitvec_len_increment(x, checks) ==
    IF x \div PackBits = U32Packs - 1 /\ x % PackBits = PackBits - 1
    THEN [panic |-> checks, value |-> 0]
    ELSE [panic |-> FALSE, value |-> x + 1]

\* pub fn push(&mut self, value: bool).  The new pack is pushed before the
\* length is incremented.
Bitvec_push(b, value, checks) ==
    LET sum == Bitvec_len_increment(Bitvec_len(b), checks)
    IN  IF Bitvec_capacity(b, checks).panic
        THEN BvOutcome(TRUE, b, None)
        ELSE IF Bitvec_len(b) = Bitvec_capacity(b, checks).value
        THEN LET bits256 == IF value
                            THEN Bits256_set(Bits256_default, 0)
                            ELSE Bits256_default
                 packed == [b EXCEPT !.bits = StorageVec_push(@, bits256)]
             IN  IF sum.panic
                 THEN BvOutcome(TRUE, packed, None)
                 ELSE BvOutcome(FALSE, [packed EXCEPT !.len = sum.value],
                                None)
        ELSE IF sum.panic
        THEN BvOutcome(TRUE, b, None)
        ELSE LET grown == [b EXCEPT !.len = sum.value]
             IN  IF value
                 THEN LET set == Bitvec_last_mut(grown, "set")
                      IN  IF set.panic \/ set.ret = None
                          THEN BvOutcome(TRUE, grown, None)
                          ELSE BvOutcome(FALSE, set.bv, None)
                 ELSE BvOutcome(FALSE, grown, None)

Bitvec_pop(b) ==
    IF Bitvec_is_empty(b)
    THEN BvOutcome(FALSE, b, None)
    ELSE LET access == Bitvec_last_mut(b, "reset")
         IN  IF access.panic \/ access.ret = None
             THEN BvOutcome(TRUE, b, None)
             ELSE BvOutcome(FALSE,
                            [access.bv EXCEPT !.len = @ - 1],
                            access.ret)

(***************************************************************************)
(* The Bitvec close to u32::MAX bits.  A number x of that size is kept as  *)
(* the pair x \div 256, x % 256.  The packs are counted, and their bits    *)
(* are kept as the set ones of the 1 bits, each the pair of the index of   *)
(* its pack and its position in the pack.                                  *)
(***************************************************************************)
Wide(hi, lo) == [hi |-> hi, lo |-> lo]

Wide_succ(x) == IF x.lo = PackBits - 1 THEN Wide(x.hi + 1, 0)
                ELSE Wide(x.hi, x.lo + 1)

Wide_pred(x) == IF x.lo = 0 THEN Wide(x.hi - 1, PackBits - 1)
                ELSE Wide(x.hi, x.lo - 1)

Wide_ge(x, y) == x.hi > y.hi \/ (x.hi = y.hi /\ x.lo >= y.lo)

\* u32::MAX
U32_MAX == Wide(U32Packs - 1, PackBits - 1)

TopOutcome(panic, b, ret) == [panic |-> panic, bv |-> b, ret |-> ret]

\* pub fn len(&self) -> u32
BitvecTop_len(b) == b.len

\* pub fn is_empty(&self) -> bool
BitvecTop_is_empty(b) == BitvecTop_len(b) = Wide(0, 0)

\* pub fn capacity(&self) -> u64 { (self.bits.len() * 256) as u64 }
\* The product is a u32: at 2^24 packs it overflows, which panics in a
\* build with overflow checks and wraps in a build without.
BitvecTop_capacity(b, checks) ==
    IF b.packs >= U32Packs
    THEN IF checks THEN [panic |-> TRUE, value |-> Wide(0, 0)]
         ELSE [panic |-> FALSE, value |-> Wide(b.packs % U32Packs, 0)]
    ELSE [panic |-> FALSE, value |-> Wide(b.packs, 0)]

\* fn split_index(&self, at: Index) -> Option<(Index, Index256)>
BitvecTop_split_index(b, at) ==
    IF Wide_ge(at, BitvecTop_len(b)) THEN None
    ELSE Some([index |-> at.hi, bit |-> at.lo])

\* fn get_bits256_mut(&mut self, at: Index) -> Option<(&mut Bits256, Index256)>
\* "expect" is the panic of expect("index is within bounds").
BitvecTop_get_bits256_mut(b, at) ==
    LET split == BitvecTop_split_index(b, at)
    IN  IF split = None THEN [panic |-> "none", ret |-> None]
        ELSE IF split[1].index >= b.packs
             THEN [panic |-> "expect", ret |-> None]
             ELSE [panic |-> "none", ret |-> split]

\* pub fn last_mut(&mut self) -> Option<BitAccess>
BitvecTop_last_mut(b) ==
    IF BitvecTop_is_empty(b) THEN [panic |-> "none", ret |-> None]
    ELSE BitvecTop_get_bits256_mut(b, Wide_pred(BitvecTop_len(b)))

\* *self.len += 1: at u32::MAX the sum overflows, which panics in a build
\* with overflow checks and wraps to 0 in a build without.
U32_increment(x, checks) ==
    IF x = U32_MAX THEN [panic |-> checks, value |-> Wide(0, 0)]
    ELSE [panic |-> FALSE, value |-> Wide_succ(x)]

\* pub fn push(&mut self, value: bool).  "overflow" is the panic of an
\* overflowing product or sum, "expect" the one of
\* expect("must have at least a valid bit in this case").  The new pack is
\* pushed before the length is incremented.
BitvecTop_push(b, value, checks) ==
    LET cap == BitvecTop_capacity(b, checks)
        sum == U32_increment(BitvecTop_len(b), checks)
    IN  IF cap.panic THEN TopOutcome("overflow", b, None)
        ELSE IF BitvecTop_len(b) = cap.value
        THEN LET packed == [b EXCEPT !.packs = @ + 1,
                                     !.ones = IF value
                                              THEN @ \cup {Wide(b.packs, 0)}
                                              ELSE @]
             IN  IF sum.panic
                 THEN TopOutcome("overflow", packed, None)
                 ELSE TopOutcome("none", [packed EXCEPT !.len = sum.value],
                                 None)
        ELSE IF sum.panic THEN TopOutcome("overflow", b, None)
        ELSE LET grown == [b EXCEPT !.len = sum.value]
                 access == BitvecTop_last_mut(grown)
             IN  IF ~value THEN TopOutcome("none", grown, None)
                 ELSE IF access.panic # "none"
                      THEN TopOutcome(access.panic, grown, None)
                 ELSE IF access.ret = None
                      THEN TopOutcome("expect", grown, None)
                 ELSE TopOutcome("none",
                                 [grown EXCEPT !.ones =
                                     @ \cup {Wide(access.ret[1].index,
                                                  access.ret[1].bit)}],
                                 None)

\* pub fn pop(&mut self) -> Option<bool>
BitvecTop_pop(b) ==
    IF BitvecTop_is_empty(b) THEN TopOutcome("none", b, None)
    ELSE LET access == BitvecTop_last_mut(b)
         IN  IF access.panic # "none" THEN TopOutcome(access.panic, b, None)
             ELSE IF access.ret = None THEN TopOutcome("expect", b, None)
             ELSE LET at == Wide(access.ret[1].index, access.ret[1].bit)
                  IN  TopOutcome("none",
                                 [b EXCEPT !.len = Wide_pred(b.len),
                                           !.ones = @ \ {at}],
                                 Some(at \in b.ones))

TopOp(name, value, panic, ret) ==
    [op |-> name, value |-> value, panic |-> panic, ret |-> ret]

\* The Bitvec after 2^32 - 256 - TopGap pushes of false: its last pack has
\* TopGap unused bits, and one more pack holds every length up to u32::MAX.
TopStart == [len |-> Wide(U32Packs - 2, PackBits - TopGap),
             packs |-> U32Packs - 1,
             ones |-> {}]

\* The lengths at which the model pushes a 1: into the last bit of a pack,
\* into a new pack, at the two lengths before the u32 length wraps, and
\* at length 0.
TopTruePos == {Wide(U32Packs - 2, PackBits - 1), Wide(U32Packs - 1, 0),
               Wide(U32Packs - 1, PackBits - 2), U32_MAX, Wide(0, 0)}

\* A Bitvec near u32::MAX bits that no operation is performed on.
TopIdle ==
    /\ top = TopStart
    /\ top_last = TopOp("start", FALSE, "none", None)

(***************************************************************************)
(* The Bitvec as a state machine: one action per operation.                *)
(***************************************************************************)
BvOp(name, at, value, act, ret) ==
    [op |-> name, at |-> at, value |-> value, act |-> act, ret |-> ret]

\* Bitvec::new().
BitvecInit ==
    /\ bv = Bitvec_new
    /\ bv_last = BvOp("new", -1, FALSE, "get", None)
    /\ bv_panicked = FALSE
    /\ bv_pushes = 0
    /\ bv_popped = FALSE

(***************************************************************************)
(* The state machine: one array, the storage behind it, and a caller that  *)
(* performs up to MaxOps operations and stops at the first panic.          *)
(***************************************************************************)
Op(name, a, b, value, ret, cursor) ==
    [op |-> name, a |-> a, b |-> b, value |-> value, ret |-> ret,
     cursor |-> cursor]

InBounds == {i \in Indices : i < CAPACITY}

\* LazyArray::new() (key = None) or an array bound to BaseKey, with an empty
\* cache; the storage holds a value or nothing at each slot.
Init ==
    /\ key \in {None, Some(BaseKey)}
    /\ footprint \in Footprints
    /\ entries = EntryArray_new
    /\ \E content \in [InBounds -> OptVals] :
           store = LET cells(i) == IF content[i] = None THEN <<>>
                                   ELSE Encode(content[i][1],
                                               BaseKey + i * footprint,
                                               footprint)
                   IN  cells(5) @@ cells(31)
    /\ reads = <<>>
    /\ issued = <<>>
    /\ last = Op("new", -1, -1, None, None, -1)
    /\ panicked = FALSE
    /\ nops = 0
    /\ BitvecInit
    /\ TopIdle
    /\ overflow_checks = FALSE
    /\ LazyIdle

CanStep == ~panicked /\ nops < MaxOps

\* The caller's record of an operation on the cache with outcome out; such
\* an operation issues no store write and no store clear.
Apply(name, a, b, value, out) ==
    /\ entries' = out.entries
    /\ reads' = out.reads
    /\ panicked' = out.panic
    /\ last' = Op(name, a, b, value, out.ret, -1)
    /\ issued' = <<>>
    /\ nops' = nops + 1
    /\ UNCHANGED <<key, footprint, store>>
    /\ UNCHANGED <<bvvars, lzvars, topvars>>

Get(at) ==
    /\ CanStep
    /\ Apply("get", at, -1, None, get(entries, reads, at))

GetMut(at, w) ==
    /\ CanStep
    /\ Apply("get_mut", at, -1, w, get_mut(entries, reads, at, w))

Put(at, v) ==
    /\ CanStep
    /\ Apply("put", at, -1, v, put(entries, reads, at, v))

PutGet(at, v) ==
    /\ CanStep
    /\ Apply("put_get", at, -1, v, put_get(entries, reads, at, v))

Take(at) ==
    /\ CanStep
    /\ Apply("take", at, -1, None, take(entries, reads, at))

Swap(a, b) ==
    /\ CanStep
    /\ Apply("swap", a, b, None, swap(entries, reads, a, b))

PushForward(offset_key) ==
    /\ CanStep
    /\ LET run == push_forward(entries, store, offset_key)
       IN  /\ store' = run.store
           /\ issued' = run.issued
    /\ last' = Op("push_forward", -1, -1, None, None, offset_key)
    /\ panicked' = FALSE
    /\ nops' = nops + 1
    /\ UNCHANGED <<key, footprint, entries, reads>>
    /\ UNCHANGED <<bvvars, lzvars, topvars>>

Next ==
    \/ \E at \in Indices : Get(at)
    \/ \E at \in Indices, w \in OptVals : GetMut(at, w)
    \/ \E at \in Indices, v \in OptVals : Put(at, v)
    \/ \E at \in Indices, v \in OptVals : PutGet(at, v)
    \/ \E at \in Indices : Take(at)
    \/ \E a \in Indices, b \in Indices : Swap(a, b)
    \/ \E c \in Cursors : PushForward(c)

Spec == Init /\ [][Next]_vars

\* The same array with a caller that writes slots and hands write-back a
\* key pointer that stands at the base key or somewhere else.
NextCursor ==
    \/ \E at \in Indices, v \in OptVals : Put(at, v)
    \/ \E at \in Indices : Take(at)
    \/ \E c \in OtherCursors : PushForward(c)

SpecCursor == Init /\ [][NextCursor]_vars

(***************************************************************************)
(* The Bitvec state machine: a caller that performs operations on one      *)
(* Bitvec created by new() and stops at the first panic.                   *)
(***************************************************************************)
\* The array the Bitvec runs next to takes no step.
InitBitvec ==
    /\ key = None
    /\ footprint = 1
    /\ entries = EntryArray_new
    /\ store = <<>>
    /\ reads = <<>>
    /\ issued = <<>>
    /\ last = Op("new", -1, -1, None, None, -1)
    /\ panicked = FALSE
    /\ nops = 0
    /\ BitvecInit
    /\ TopIdle
    /\ overflow_checks \in BOOLEAN
    /\ LazyIdle

BvApply(name, at, value, act, out) ==
    /\ bv' = out.bv
    /\ bv_panicked' = out.panic
    /\ bv_last' = BvOp(name, at, value, act, out.ret)
    /\ bv_pushes' = IF name = "pop" THEN 0
                    ELSE IF name = "push" /\ ~bv_popped THEN bv_pushes + 1
                    ELSE bv_pushes
    /\ bv_popped' = (bv_popped \/ name = "pop")
    /\ UNCHANGED <<arrayvars, lzvars, topvars>>

\* The model sets a bit to 1 only at the indices of TruePos.
MaySet(at) == at \in TruePos

BvPush(value) ==
    /\ ~bv_panicked
    /\ Bitvec_len(bv) < MaxLen
    /\ value => MaySet(Bitvec_len(bv))
    /\ BvApply("push", -1, value, "get", Bitvec_push(bv, value, overflow_checks))

BvPop ==
    /\ ~bv_panicked
    /\ BvApply("pop", -1, FALSE, "get", Bitvec_pop(bv))

BvGet(at) ==
    /\ ~bv_panicked
    /\ BvApply("get", at, FALSE, "get", Bitvec_get(bv, at))

BvGetMut(at, act) ==
    /\ ~bv_panicked
    /\ act = "set" => MaySet(at)
    /\ BvApply("get_mut", at, FALSE, act, Bitvec_get_mut(bv, at, act))

BvFirst ==
    /\ ~bv_panicked
    /\ BvApply("first", -1, FALSE, "get", Bitvec_first(bv))

BvFirstMut(act) ==
    /\ ~bv_panicked
    /\ BvApply("first_mut", -1, FALSE, act, Bitvec_first_mut(bv, act))

BvLast ==
    /\ ~bv_panicked
    /\ BvApply("last", -1, FALSE, "get", Bitvec_last(bv))

BvLastMut(act) ==
    /\ ~bv_panicked
    /\ act = "set" => MaySet(Bitvec_len(bv) - 1)
    /\ BvApply("last_mut", -1, FALSE, act, Bitvec_last_mut(bv, act))

NextBitvec ==
    \/ \E value \in BOOLEAN : BvPush(value)
    \/ BvPop
    \/ \E at \in BitIndices : BvGet(at)
    \/ \E at \in BitIndices, act \in BitActs : BvGetMut(at, act)
    \/ BvFirst
    \/ \E act \in BitActs : BvFirstMut(act)
    \/ BvLast
    \/ \E act \in BitActs : BvLastMut(act)

SpecBitvec == InitBitvec /\ [][NextBitvec]_vars

(***************************************************************************)
(* The Lazy state machine: one Lazy<T>, created by new(value) or by        *)
(* lazy(BaseKey), the storage behind it, and a caller that performs up to  *)
(* MaxLazyOps operations.  A panic unwinds to the caller, which may go on  *)
(* to write the Lazy back.                                                 *)
(***************************************************************************)
LzOp(name, w, ret, cursor) ==
    [op |-> name, w |-> w, ret |-> ret, cursor |-> cursor]

InitLazy ==
    /\ key = None
    /\ footprint \in Footprints
    /\ entries = EntryArray_new
    /\ \E content \in OptVals :
           store = IF content = None THEN <<>>
                   ELSE Encode(content[1], BaseKey, footprint)
    /\ reads = <<>>
    /\ issued = <<>>
    /\ last = Op("new", -1, -1, None, None, -1)
    /\ panicked = FALSE
    /\ nops = 0
    /\ BitvecInit
    /\ TopIdle
    /\ overflow_checks = FALSE
    /\ \/ \E v \in Vals :
              /\ lz_cell = Lazy_new(v)
              /\ lz_last = LzOp("new", Some(v), None, -1)
       \/ /\ lz_cell = Lazy_lazy(BaseKey)
          /\ lz_last = LzOp("lazy", None, None, -1)
    /\ lz_panicked = FALSE
    /\ lz_nops = 0

LzApply(name, w, out) ==
    /\ lz_cell' = out.cell
    /\ reads' = out.reads
    /\ lz_panicked' = out.panic
    /\ lz_last' = LzOp(name, w, out.ret, -1)
    /\ issued' = <<>>
    /\ lz_nops' = lz_nops + 1
    /\ UNCHANGED <<key, footprint, entries, store, last, panicked, nops>>
    /\ UNCHANGED <<bvvars, topvars>>

LzGet ==
    /\ lz_nops < MaxLazyOps
    /\ LzApply("get", None, Lazy_get(lz_cell, store, reads))

LzGetMut(w) ==
    /\ lz_nops < MaxLazyOps
    /\ LzApply("get_mut", w, Lazy_get_mut(lz_cell, store, reads, w))

LzPushForward(k) ==
    /\ lz_nops < MaxLazyOps
    /\ LET run == Lazy_push_forward(lz_cell, store, k)
       IN  /\ store' = run.store
           /\ issued' = run.issued
    /\ lz_last' = LzOp("push_forward", None, None, k)
    /\ lz_panicked' = FALSE
    /\ lz_nops' = lz_nops + 1
    /\ UNCHANGED <<key, footprint, entries, reads, last, panicked, nops>>
    /\ UNCHANGED <<lz_cell, bvvars, topvars>>

LzClearForward(k) ==
    /\ lz_nops < MaxLazyOps
    /\ \E run \in Lazy_clear_forward(lz_cell, store, k) :
           /\ store' = run.store
           /\ issued' = run.issued
    /\ lz_last' = LzOp("clear_forward", None, None, k)
    /\ lz_panicked' = FALSE
    /\ lz_nops' = lz_nops + 1
    /\ UNCHANGED <<key, footprint, entries, reads, last, panicked, nops>>
    /\ UNCHANGED <<lz_cell, bvvars, topvars>>

\* The Lazy values the Lazy is compared with: created by new(v) or bound to
\* the same key.
Others == {Lazy_new(v) : v \in Vals} \cup {Lazy_lazy(BaseKey)}

LzEq(other) ==
    /\ lz_nops < MaxLazyOps
    /\ LzApply("eq", Some(other), Lazy_eq(lz_cell, other, store, reads))

LzPartialCmp(other) ==
    /\ lz_nops < MaxLazyOps
    /\ LzApply("partial_cmp", Some(other),
               Lazy_partial_cmp(lz_cell, other, store, reads))

LzLt(other) ==
    /\ lz_nops < MaxLazyOps
    /\ LzApply("lt", Some(other),
               Lazy_lt(lz_cell, other, store, reads))

LzLe(other) ==
    /\ lz_nops < MaxLazyOps
    /\ LzApply("le", Some(other),
               Lazy_le(lz_cell, other, store, reads))

LzGe(other) ==
    /\ lz_nops < MaxLazyOps
    /\ LzApply("ge", Some(other),
               Lazy_ge(lz_cell, other, store, reads))

LzGt(other) ==
    /\ lz_nops < MaxLazyOps
    /\ LzApply("gt", Some(other),
               Lazy_gt(lz_cell, other, store, reads))

LzCmp(other) ==
    /\ lz_nops < MaxLazyOps
    /\ LzApply("cmp", Some(other), Lazy_cmp(lz_cell, other, store, reads))

LzFmt ==
    /\ lz_nops < MaxLazyOps
    /\ LzApply("fmt", None, Lazy_fmt(lz_cell, store, reads))

LzHash ==
    /\ lz_nops < MaxLazyOps
    /\ LzApply("hash", None, Lazy_hash(lz_cell, HasherState, store, reads))

LzAsRef ==
    /\ lz_nops < MaxLazyOps
    /\ LzApply("as_ref", None, Lazy_as_ref(lz_cell, store, reads))

LzAsMut(w) ==
    /\ lz_nops < MaxLazyOps
    /\ LzApply("as_mut", w, Lazy_as_mut(lz_cell, store, reads, w))

LzBorrow ==
    /\ lz_nops < MaxLazyOps
    /\ LzApply("borrow", None, Lazy_borrow(lz_cell, store, reads))

LzBorrowMut(w) ==
    /\ lz_nops < MaxLazyOps
    /\ LzApply("borrow_mut", w, Lazy_borrow_mut(lz_cell, store, reads, w))

LzDeref ==
    /\ lz_nops < MaxLazyOps
    /\ LzApply("deref", None, Lazy_deref(lz_cell, store, reads))

LzDerefMut(w) ==
    /\ lz_nops < MaxLazyOps
    /\ LzApply("deref_mut", w, Lazy_deref_mut(lz_cell, store, reads, w))

NextLazy ==
    \/ LzGet
    \/ \E w \in OptVals : LzGetMut(w)
    \/ \E c \in Cursors : LzPushForward(c)
    \/ \E c \in Cursors : LzClearForward(c)
    \/ \E other \in Others : LzEq(other)
    \/ \E other \in Others : LzPartialCmp(other)
    \/ \E other \in Others : LzLt(other)
    \/ \E other \in Others : LzLe(other)
    \/ \E other \in Others : LzGe(other)
    \/ \E other \in Others : LzGt(other)
    \/ \E other \in Others : LzCmp(other)
    \/ LzFmt
    \/ LzHash
    \/ LzAsRef
    \/ \E w \in OptVals : LzAsMut(w)
    \/ LzBorrow
    \/ \E w \in OptVals : LzBorrowMut(w)
    \/ LzDeref
    \/ \E w \in OptVals : LzDerefMut(w)

SpecLazy == InitLazy /\ [][NextLazy]_vars

(***************************************************************************)
(* The Bitvec close to u32::MAX bits as a state machine: a caller that     *)
(* pushes, pops back to the starting length at most, asks for the          *)
(* capacity, and stops at the first panic.  The build either checks        *)
(* integer overflow or wraps.                                              *)
(***************************************************************************)
InitTop ==
    /\ key = None
    /\ footprint = 1
    /\ entries = EntryArray_new
    /\ store = <<>>
    /\ reads = <<>>
    /\ issued = <<>>
    /\ last = Op("new", -1, -1, None, None, -1)
    /\ panicked = FALSE
    /\ nops = 0
    /\ BitvecInit
    /\ LazyIdle
    /\ top = TopStart
    /\ overflow_checks \in BOOLEAN
    /\ top_last = TopOp("start", FALSE, "none", None)

TopApply(name, value, out) ==
    /\ top' = out.bv
    /\ top_last' = TopOp(name, value, out.panic, out.ret)
    /\ UNCHANGED <<overflow_checks, arrayvars, bvvars, lzvars>>

\* The caller pushes from the starting length up to u32::MAX and beyond,
\* and up to the length MaxWrapped once the length has wrapped.
TopPush(value) ==
    /\ top_last.panic = "none"
    /\ \/ Wide_ge(BitvecTop_len(top), TopStart.len)
       \/ ~Wide_ge(BitvecTop_len(top), Wide(0, MaxWrapped))
    /\ value => BitvecTop_len(top) \in TopTruePos
    /\ TopApply("push", value, BitvecTop_push(top, value, overflow_checks))

TopPop ==
    /\ top_last.panic = "none"
    /\ BitvecTop_len(top) # TopStart.len
    /\ TopApply("pop", FALSE, BitvecTop_pop(top))

TopCapacity ==
    /\ top_last.panic = "none"
    /\ LET cap == BitvecTop_capacity(top, overflow_checks)
       IN  TopApply("capacity", FALSE,
                    TopOutcome(IF cap.panic THEN "overflow" ELSE "none", top,
                               IF cap.panic THEN None ELSE Some(cap.value)))

NextTop ==
    \/ \E value \in BOOLEAN : TopPush(value)
    \/ TopPop
    \/ TopCapacity

SpecTop == InitTop /\ [][NextTop]_vars

(***************************************************************************)
(* Properties of LazyArray.                                                *)
(***************************************************************************)
Slots == 0..(CAPACITY - 1)

IsMutated(es, i) == es[i] # None /\ Entry_is_mutated(es[i][1])

IsPreserved(es, i) == es[i] # None /\ ~Entry_is_mutated(es[i][1])

MutatedSlots(es) == {i \in Slots : IsMutated(es, i)}

\* The footprint(T) cells from k on hold the encoding of v.
Holds(st, k, v) ==
    \A j \in 0..(footprint - 1) :
        (k + j) \in DOMAIN st /\ st[k + j] = <<v, j>>

\* The footprint(T) cells from k on are empty.
Cleared(st, k) ==
    \A j \in 0..(footprint - 1) : (k + j) \notin DOMAIN st

\* The footprint(T) cells from k on are the same in st1 and st2.
SameCells(st1, st2, k) ==
    \A j \in 0..(footprint - 1) :
        /\ ((k + j) \in DOMAIN st1) = ((k + j) \in DOMAIN st2)
        /\ (k + j) \in DOMAIN st1 => st1[k + j] = st2[k + j]

\* The step is the operation called name.
Did(name) == nops' = nops + 1 /\ last'.op = name

\* The latest operation was a write-back with the key pointer at the base
\* key of the array.
WroteBackAtKey ==
    last.op = "push_forward" /\ key # None /\ last.cursor = key[1]

\* C1: after a write-back with the key pointer at the base key, every
\* Mutated slot that holds Some(v) has v stored at key_at(i), whatever
\* footprint(T) is, and for footprint(T) <= 32 the cells of every Mutated
\* slot that holds None are cleared.
C1_WriteBackKeepsEveryWrite ==
    WroteBackAtKey =>
        \A i \in Slots :
            IsMutated(entries, i) =>
                LET v == Entry_value(entries[i][1])
                IN  IF v # None
                    THEN Holds(store, key_at(i)[1], v[1])
                    ELSE footprint <= 32 => Cleared(store, key_at(i)[1])

\* C2: a write-back issues no store write and no store clear for a slot
\* that is not cached or is Preserved, and the cells of such a slot are the
\* same before and after the write-back.
C2_DirtyOnlyWriteBack ==
    [][Did("push_forward") =>
          \A i \in Slots :
              ~IsMutated(entries, i) =>
                  /\ \A n \in 1..Len(issued') : issued'[n].index # i
                  /\ SameCells(store, store',
                               last'.cursor + i * footprint)]_vars

\* C2 witness: a write-back that wrote a Mutated slot while another slot was
\* cached and Preserved and the remaining slots were not cached.
C2_Witness ==
    /\ last.op = "push_forward"
    /\ issued # <<>>
    /\ \E i \in Slots : IsPreserved(entries, i) /\ Entry_value(entries[i][1]) # None
    /\ \E i \in Slots : entries[i] = None

\* C3: swap(a, b) with distinct in-bounds a and b, at least one of which
\* holds a value once loaded, exchanges the values get(a) and get(b) return
\* and leaves both slots Mutated.
C3_SwapExchangesValues ==
    [][(/\ Did("swap")
        /\ ~panicked'
        /\ last'.a # last'.b
        /\ \/ get(entries, reads, last'.a).ret # None
           \/ get(entries, reads, last'.b).ret # None)
       => /\ get(entries', reads', last'.a).ret
                = get(entries, reads, last'.b).ret
          /\ get(entries', reads', last'.b).ret
                = get(entries, reads, last'.a).ret
          /\ IsMutated(entries', last'.a)
          /\ IsMutated(entries', last'.b)]_vars

\* C4: for footprint(T) <= 32, after a write-back with the key pointer at
\* the base key a freshly constructed array bound to the same key returns
\* from get(i), for every slot i, what the original array's get(i) returns.
C4_RoundTrip ==
    (WroteBackAtKey /\ footprint <= 32) =>
        \A i \in Slots :
            LET fresh == get(EntryArray_new, reads, i)
                original == get(entries, reads, i)
            IN  fresh.panic = original.panic /\ fresh.ret = original.ret

\* C4 witness: a write-back at the base key, with footprint(T) <= 32, that
\* wrote a value over a different stored value and cleared another slot.
C4_Witness ==
    /\ WroteBackAtKey
    /\ footprint <= 32
    /\ \E n \in 1..Len(issued) : issued[n].op = "write"
    /\ \E n \in 1..Len(issued) : issued[n].op = "clear"
    /\ \E i \in Slots : IsMutated(entries, i) /\ reads # <<>>

\* C5: get(i) called twice in a row returns equal values, the second call
\* issues no store read, no key is ever read more than once, and get does
\* not change which slots are Mutated.
C5_LoadIdempotence ==
    [][(Did("get") /\ ~panicked') =>
          LET again == get(entries', reads', last'.a)
          IN  /\ ~again.panic
              /\ again.ret = last'.ret
              /\ again.reads = reads'
              /\ again.entries = entries'
              /\ MutatedSlots(entries') = MutatedSlots(entries)
              /\ \A k \in DOMAIN reads' : reads'[k] <= 1]_vars

\* C5 witness: a get that returned a value it loaded from the storage, in an
\* array that has a Mutated slot.
C5_Witness ==
    /\ last.op = "get"
    /\ ~panicked
    /\ last.ret # None
    /\ IsPreserved(entries, last.a)
    /\ ReadsOf(reads, key_at(last.a)[1]) = 1
    /\ MutatedSlots(entries) # {}

\* C6: put_get(i, v) returns what get(i) would have returned right before
\* the call and leaves slot i holding v and Mutated.  On an array bound to a
\* key with nothing stored, put_get(5, Some(42)) returns None, a following
\* put_get(5, Some(7)) returns Some(42), and a following write-back issues
\* exactly one store operation: a write of 7 at key + 5 * footprint(T).
C6_PutGetReturnsPrevious ==
    [][/\ (Did("put_get") /\ ~panicked') =>
              /\ last'.ret = get(entries, reads, last'.a).ret
              /\ entries'[last'.a] = Some(Entry_new(last'.value, "Mutated"))
       /\ (/\ Did("put_get")
           /\ key # None
           /\ DOMAIN store = {}
           /\ entries = EntryArray_new
           /\ last'.a = 5
           /\ last'.value = Some(42)) =>
              ~panicked' /\ last'.ret = None
       /\ (/\ Did("put_get")
           /\ last.op = "put_get"
           /\ last.a = 5
           /\ last.value = Some(42)
           /\ last'.a = 5
           /\ last'.value = Some(7)) =>
              ~panicked' /\ last'.ret = Some(42)
       /\ (/\ Did("push_forward")
           /\ key # None
           /\ last'.cursor = key[1]
           /\ last.op = "put_get"
           /\ last.a = 5
           /\ last.value = Some(7)
           /\ \A i \in Slots \ {5} : entries[i] = None) =>
              issued' = <<StoreOp("write", 5, key[1] + 5 * footprint,
                                  Some(7))>>]_vars

\* C6 witness: the write-back at the end of the scenario: three operations,
\* slot 5 was loaded from the base key and found empty, it holds 7, and the
\* one store operation issued is the write of 7 at key + 5 * footprint(T).
C6_Witness ==
    /\ WroteBackAtKey
    /\ nops = 3
    /\ reads = (key[1] + 5 * footprint) :> 1
    /\ entries = [EntryArray_new EXCEPT ![5] = Some(Entry_new(Some(7), "Mutated"))]
    /\ issued = <<StoreOp("write", 5, key[1] + 5 * footprint, Some(7))>>
    /\ DOMAIN store = (key[1] + 5 * footprint)..(key[1] + 6 * footprint - 1)

\* C7: put(i, v) with i in bounds does not panic and reads nothing from the
\* storage, with or without a base key and whether or not slot i is cached;
\* it leaves slot i holding v and Mutated and the other slots unchanged, and
\* a following get(i) returns v without a store read.
C7_PutNeverReads ==
    [][(Did("put") /\ last'.a < CAPACITY) =>
          /\ ~panicked'
          /\ reads' = reads
          /\ store' = store
          /\ issued' = <<>>
          /\ entries' = [entries EXCEPT
                            ![last'.a] = Some(Entry_new(last'.value, "Mutated"))]
          /\ LET after == get(entries', reads', last'.a)
             IN  /\ ~after.panic
                 /\ after.ret = last'.value
                 /\ after.reads = reads']_vars

\* C7 witness: a put of a value into a slot that was not cached, on an array
\* without a base key, while the storage holds a value.
C7_Witness ==
    /\ last.op = "put"
    /\ ~panicked
    /\ key = None
    /\ last.value # None
    /\ nops = 1
    /\ DOMAIN store # {}

\* take(i) and put_get(i, None) have the same result and the same effect;
\* take(i) returns what get(i) would have returned, leaves slot i holding
\* None and Mutated, and a following get(i) returns None; a write-back at
\* the base key right after take(i) leaves the cells of slot i cleared when
\* clearing holds.
C8_Take(clearing) ==
    /\ Did("take") =>
           Outcome(panicked', entries', reads', last'.ret)
               = put_get(entries, reads, last'.a, None)
    /\ (Did("take") /\ ~panicked') =>
           /\ last'.ret = get(entries, reads, last'.a).ret
           /\ entries'[last'.a] = Some(Entry_new(None, "Mutated"))
           /\ LET after == get(entries', reads', last'.a)
              IN  ~after.panic /\ after.ret = None
    /\ (/\ Did("push_forward")
        /\ last.op = "take"
        /\ key # None
        /\ last'.cursor = key[1]
        /\ clearing) =>
           Cleared(store', key_at(last.a)[1])

\* C8 as stated: the write-back after take(i) clears the cells of slot i.
C8_TakeThenWriteBackClears == [][C8_Take(TRUE)]_vars

\* C8 amended: the write-back after take(i) clears the cells of slot i when
\* footprint(T) <= 32.
C8_TakeIsPutGetNone == [][C8_Take(footprint <= MaxClearFootprint)]_vars

\* C8 witness: a write-back at the base key that cleared the 32 cells of a
\* slot which had been loaded from the storage and emptied.
C8_Witness ==
    /\ WroteBackAtKey
    /\ footprint = 32
    /\ \E i \in Slots :
           /\ entries[i] = Some(Entry_new(None, "Mutated"))
           /\ ReadsOf(reads, key_at(i)[1]) = 1
           /\ Len(issued) = 32
           /\ \A n \in 1..32 : issued[n] = StoreOp("clear", i, key_at(i)[1] + n - 1, None)

\* C9: get_mut, put, put_get and take leave the addressed slot Mutated, also
\* when nothing is written through the handle and when the new value equals
\* the old one; get leaves a slot that was not Mutated Preserved; and no
\* operation takes a slot out of the Mutated state.
C9_MutatingOpsMarkMutated ==
    [][/\ (/\ nops' = nops + 1
           /\ last'.op \in {"get_mut", "put", "put_get", "take"}
           /\ ~panicked') => IsMutated(entries', last'.a)
       /\ (Did("get") /\ ~panicked' /\ ~IsMutated(entries, last'.a)) =>
              IsPreserved(entries', last'.a)
       /\ MutatedSlots(entries) \subseteq MutatedSlots(entries')]_vars

\* C9 witness: get_mut on a slot holding a value, with nothing written
\* through the handle, next to a slot that was only read.
C9_Witness ==
    /\ last.op = "get_mut"
    /\ ~panicked
    /\ last.value = None
    /\ last.ret # None
    /\ entries[last.a] = Some(Entry_new(last.ret, "Mutated"))
    /\ \E i \in Slots : IsPreserved(entries, i)

\* C10: get, get_mut, put, put_get, take and swap panic when an index is
\* >= 32, for swap also when a == b, and the panic comes before any store
\* operation and any change of the cache.
C10_OutOfBoundsPanics ==
    [][(/\ nops' = nops + 1
        /\ last'.op \in {"get", "get_mut", "put", "put_get", "take", "swap"}
        /\ \/ last'.a >= CAPACITY
           \/ (last'.op = "swap" /\ last'.b >= CAPACITY)) =>
           /\ panicked'
           /\ entries' = entries
           /\ reads' = reads
           /\ store' = store
           /\ issued' = <<>>]_vars

\* C10 witness: swap(a, a) with a out of bounds panicked on an array with a
\* cached slot.
C10_Witness ==
    /\ last.op = "swap"
    /\ last.a = last.b
    /\ last.a >= CAPACITY
    /\ panicked
    /\ entries # EntryArray_new

\* The step is one of the operations that load the slot last'.a through the
\* cache.
DidLoadOp ==
    /\ nops' = nops + 1
    /\ last'.op \in {"get", "get_mut", "put_get", "take"}

\* An array without a base key: get, get_mut, put_get and take panic when
\* the addressed in-bounds slot is not cached, swap panics when an addressed
\* in-bounds slot is not cached (when the two indices differ, if distinct
\* holds), and no store read is issued before the panic; a cached slot is
\* served from the cache without a panic and without a read.
C11_NoKey(distinct) ==
    /\ (/\ DidLoadOp
        /\ key = None
        /\ last'.a < CAPACITY
        /\ entries[last'.a] = None) => panicked' /\ reads' = reads
    /\ (/\ Did("swap")
        /\ key = None
        /\ distinct => last'.a # last'.b
        /\ \/ last'.a < CAPACITY /\ entries[last'.a] = None
           \/ last'.b < CAPACITY /\ entries[last'.b] = None) =>
           panicked' /\ reads' = reads
    /\ (/\ DidLoadOp
        /\ key = None
        /\ last'.a < CAPACITY
        /\ entries[last'.a] # None) =>
           /\ ~panicked'
           /\ reads' = reads
           /\ last'.ret = Entry_value(entries[last'.a][1])

\* C11 as stated: on an array created by new(), get, get_mut, put_get, take
\* and swap panic whenever an addressed in-bounds slot is not cached.
C11_NoKeyLoadPanics == [][C11_NoKey(FALSE)]_vars

\* C11 amended: as stated, for swap when the two indices differ; swap(a, a)
\* returns before it loads anything.
C11_NoKeyLoadPanicsDistinct == [][C11_NoKey(TRUE)]_vars

\* C11 witness: on an array without a base key, swap(a, b) found a cached
\* (put before) and panicked on loading b, which was not cached.
C11_Witness ==
    /\ key = None
    /\ last.op = "swap"
    /\ panicked
    /\ last.a < CAPACITY
    /\ last.b < CAPACITY
    /\ entries[last.a] # None
    /\ entries[last.b] = None
    /\ reads = <<>>

\* C12: key_at(i) is None when i >= 32 or the array has no base key, and
\* base_key + i * footprint(T) otherwise; an operation that loads slot i
\* from the storage reads exactly at key_at(i).
C12_KeyAt ==
    [][/\ \A i \in Indices \cup {0} :
              key_at(i) = IF i >= 32 \/ key = None
                          THEN None
                          ELSE Some(key[1] + i * footprint)
       /\ (/\ DidLoadOp
           /\ key # None
           /\ last'.a < CAPACITY
           /\ entries[last'.a] = None) =>
              reads' = CountRead(reads, key[1] + last'.a * footprint)]_vars

\* C12 witness: get(31) on an array of 32-cell elements read the storage at
\* base_key + 31 * 32.
C12_Witness ==
    /\ last.op = "get"
    /\ ~panicked
    /\ last.a = 31
    /\ footprint = 32
    /\ key # None
    /\ DOMAIN reads = {key[1] + 31 * 32}
    /\ last.ret # None

\* C18: swap(a, b) followed by swap(a, b) leaves get(a) and get(b)
\* returning what they returned before the first swap.
C18_SwapSymmetry ==
    [][(Did("swap") /\ ~panicked') =>
          LET second == swap(entries', reads', last'.a, last'.b)
          IN  /\ ~second.panic
              /\ get(second.entries, second.reads, last'.a).ret
                    = get(entries, reads, last'.a).ret
              /\ get(second.entries, second.reads, last'.b).ret
                    = get(entries, reads, last'.b).ret]_vars

\* C18 witness: a swap of two distinct slots, one holding a value and the
\* other one not.
C18_Witness ==
    /\ last.op = "swap"
    /\ ~panicked
    /\ last.a # last.b
    /\ IsMutated(entries, last.a)
    /\ IsMutated(entries, last.b)
    /\ Entry_value(entries[last.a][1]) # Entry_value(entries[last.b][1])

\* C19: swap(a, a) with a in bounds reads nothing and changes no cached
\* slot; swap(a, b) with distinct slots that both hold None once loaded
\* marks no slot Mutated, the loaded slots are Preserved, and a write-back
\* issues the same store operations as it would have issued without the
\* swap.
C19_SwapNoOps ==
    [][/\ (Did("swap") /\ last'.a = last'.b /\ last'.a < CAPACITY) =>
              /\ ~panicked'
              /\ reads' = reads
              /\ entries' = entries
       /\ (/\ Did("swap")
           /\ ~panicked'
           /\ last'.a # last'.b
           /\ get(entries, reads, last'.a).ret = None
           /\ get(entries, reads, last'.b).ret = None) =>
              /\ MutatedSlots(entries') = MutatedSlots(entries)
              /\ \A i \in {last'.a, last'.b} :
                     entries[i] = None => IsPreserved(entries', i)
              /\ \A i \in Slots \ {last'.a, last'.b} : entries'[i] = entries[i]
              /\ \A c \in Cursors :
                     push_forward(entries', store, c)
                         = push_forward(entries, store, c)]_vars

\* C19 witness: a swap of two distinct slots that were not cached and hold
\* nothing in the storage, next to no Mutated slot.
C19_Witness ==
    /\ last.op = "swap"
    /\ ~panicked
    /\ last.a # last.b
    /\ IsPreserved(entries, last.a)
    /\ IsPreserved(entries, last.b)
    /\ Entry_value(entries[last.a][1]) = None
    /\ Entry_value(entries[last.b][1]) = None
    /\ Cardinality(DOMAIN reads) = 2

(***************************************************************************)
(* Properties of Bitvec.                                                   *)
(***************************************************************************)
\* The indices of the 1 bits of b.
Ones(b) ==
    UNION {{PackBits * i + pos : pos \in b.bits.packs[i]} :
           i \in DOMAIN b.bits.packs}

\* The indices below n of the 1 bits of b.
LowerOnes(b, n) == {i \in Ones(b) : i < n}

\* capacity() of b as a number, in the build of the run.
Capacity(b) == Bitvec_capacity(b, overflow_checks).value

\* C13, for the lengths up to MaxLen:
\* in every state reached from Bitvec::new() by push, pop and get_mut
\* mutations, capacity() is a multiple of 256, capacity() >= len(), and
\* len() <= 256 * (number of allocated packs).
C13_CapacityCoversLen ==
    /\ ~Bitvec_capacity(bv, overflow_checks).panic
    /\ Capacity(bv) % 256 = 0
    /\ Capacity(bv) >= Bitvec_len(bv)
    /\ Bitvec_len(bv) <= 256 * StorageVec_len(bv.bits)

\* C13 witness: after pushes, pops and a write through get_mut, two packs
\* are allocated and the length fits into the first one.
C13_Witness ==
    /\ bv_popped
    /\ bv_last.op = "get_mut"
    /\ bv_last.act = "set"
    /\ bv_last.ret # None
    /\ Bitvec_len(bv) = 256
    /\ Capacity(bv) = 512

\* C14: get(i) and get_mut(i) return None if and only if i >= len(), and
\* do not panic; first() and last() return None if and only if the vector
\* is empty, and otherwise what get(0) and get(len() - 1) return.
C14_AbsentIffOutOfBounds ==
    /\ bv_last.op \in {"get", "get_mut", "first", "last"} => ~bv_panicked
    /\ bv_last.op \in {"get", "get_mut"} =>
           (bv_last.ret = None <=> bv_last.at >= Bitvec_len(bv))
    /\ bv_last.op \in {"first", "last"} =>
           (bv_last.ret = None <=> Bitvec_len(bv) = 0)
    /\ (bv_last.op = "first" /\ Bitvec_len(bv) > 0) =>
           bv_last.ret = Bitvec_get(bv, 0).ret
    /\ (bv_last.op = "last" /\ Bitvec_len(bv) > 0) =>
           bv_last.ret = Bitvec_get(bv, Bitvec_len(bv) - 1).ret
    /\ ~bv_panicked =>
           \A i \in BitIndices \cup {Bitvec_len(bv), Capacity(bv)} :
               /\ ~Bitvec_get(bv, i).panic
               /\ Bitvec_get(bv, i).ret = None <=> i >= Bitvec_len(bv)
               /\ \A act \in BitActs :
                      /\ ~Bitvec_get_mut(bv, i, act).panic
                      /\ Bitvec_get_mut(bv, i, act).ret = None
                             <=> i >= Bitvec_len(bv)

\* C14 witness: get(255) returned None on a vector of fewer than 256 bits
\* that has its first pack allocated.
C14_Witness ==
    /\ bv_last.op = "get"
    /\ bv_last.at = 255
    /\ bv_last.ret = None
    /\ ~bv_panicked
    /\ Bitvec_len(bv) > 0
    /\ Capacity(bv) = 256

\* While only pushes have changed the length: len() is the number of pushes
\* and capacity() is 256 * ceil(len() / 256).
C15_Chunked ==
    ~bv_popped =>
        /\ Bitvec_len(bv) = bv_pushes
        /\ Capacity(bv) = 256 * ((bv_pushes + 255) \div 256)
        /\ bv_pushes = 257 => Capacity(bv) = 512

\* C15, for the lengths up to MaxLen:
\* after n pushes on an empty Bitvec, without a pop, len() = n and
\* capacity() = 256 * ceil(n / 256), 512 after 257 pushes; the number of
\* packs changes only in a push called when len() = capacity(), and then
\* by one.
C15_GrowthByPacks ==
    /\ C15_Chunked
    /\ [][/\ C15_Chunked'
          /\ StorageVec_len(bv'.bits) # StorageVec_len(bv.bits) =>
                 /\ bv_last'.op = "push"
                 /\ Bitvec_len(bv) = Capacity(bv)
                 /\ StorageVec_len(bv'.bits)
                        = StorageVec_len(bv.bits) + 1]_vars

\* C15 witness: the 257th push.
C15_Witness ==
    /\ ~bv_popped
    /\ bv_last.op = "push"
    /\ bv_pushes = 257
    /\ Bitvec_len(bv) = 257
    /\ Capacity(bv) = 512

\* C16, for the lengths up to MaxLen:
\* in every reachable state, push(v) followed by pop() returns
\* Some(v), brings len() back to its value before the push, and leaves
\* every bit below that length as it was, for v = false and v = true.
C16_PushPopInverse ==
    ~bv_panicked =>
        \A v \in BOOLEAN :
            LET pushed == Bitvec_push(bv, v, overflow_checks)
                popped == Bitvec_pop(pushed.bv)
            IN  /\ ~pushed.panic
                /\ ~popped.panic
                /\ popped.ret = Some(v)
                /\ Bitvec_len(popped.bv) = Bitvec_len(bv)
                /\ LowerOnes(popped.bv, Bitvec_len(bv))
                       = LowerOnes(bv, Bitvec_len(bv))

\* C16 witness: a 1 bit has just been popped from index 255, the position
\* the next push writes to.
C16_Witness ==
    /\ bv_last.op = "pop"
    /\ bv_last.ret = Some(TRUE)
    /\ Bitvec_len(bv) = 255
    /\ Capacity(bv) = 256
    /\ ~bv_panicked

\* C17, for the lengths up to MaxLen:
\* pop on an empty vector returns None and changes nothing; on a
\* non-empty vector it returns what get(len() - 1) returned, sets that bit
\* to 0, decreases len() by 1, leaves the bits below unchanged and keeps
\* capacity(); no operation decreases capacity().
C17_PopAndCapacity ==
    [][/\ Capacity(bv') >= Capacity(bv)
       /\ (bv_last'.op = "pop" /\ Bitvec_len(bv) = 0) =>
              /\ ~bv_panicked'
              /\ bv_last'.ret = None
              /\ bv' = bv
       /\ (bv_last'.op = "pop" /\ Bitvec_len(bv) > 0) =>
              /\ ~bv_panicked'
              /\ bv_last'.ret = Bitvec_get(bv, Bitvec_len(bv) - 1).ret
              /\ bv_last'.ret # None
              /\ (Bitvec_len(bv) - 1) \notin Ones(bv')
              /\ Bitvec_len(bv') = Bitvec_len(bv) - 1
              /\ LowerOnes(bv', Bitvec_len(bv'))
                     = LowerOnes(bv, Bitvec_len(bv'))
              /\ Capacity(bv') = Capacity(bv)]_vars

\* C17 witness: pop returned the 1 bit at index 256 and left the second
\* pack allocated.
C17_Witness ==
    /\ bv_last.op = "pop"
    /\ bv_last.ret = Some(TRUE)
    /\ Bitvec_len(bv) = 256
    /\ Capacity(bv) = 512
    /\ Ones(bv) \subseteq 0..255

(***************************************************************************)
(* Properties of Lazy.                                                     *)
(***************************************************************************)
LzDid(name) == lz_nops' = lz_nops + 1 /\ lz_last'.op = name

\* C20: write-back of a Lazy issues no store operation when nothing is
\* cached and when the cached entry is Preserved; when the entry is Mutated
\* it writes the value at the bound key (the key the write-back is pointed
\* at), or clears the footprint(T) cells there when the value is None; the
\* cell itself is left as it is.
C20_LazyWriteBack ==
    [][LzDid("push_forward") =>
          LET k == lz_last'.cursor
              e == lz_cell.entry
          IN  /\ lz_cell' = lz_cell
              /\ lz_cell.key # None => lz_cell.key[1] = k
              /\ (e = None \/ (e # None /\ ~Entry_is_mutated(e[1]))) =>
                     /\ issued' = <<>>
                     /\ store' = store
              /\ (e # None /\ Entry_is_mutated(e[1])
                           /\ Entry_value(e[1]) # None) =>
                     /\ issued' = <<StoreOp("write", 0, k, Entry_value(e[1]))>>
                     /\ Holds(store', k, Entry_value(e[1])[1])
              /\ (e # None /\ Entry_is_mutated(e[1])
                           /\ Entry_value(e[1]) = None) =>
                     /\ Len(issued') = footprint
                     /\ \A i \in 1..footprint :
                            issued'[i] = StoreOp("clear", 0, k + (i - 1), None)
                     /\ Cleared(store', k)
              /\ \A c \in (DOMAIN store \cup DOMAIN store')
                             \ (k..(k + footprint - 1)) :
                     /\ c \in DOMAIN store
                     /\ c \in DOMAIN store'
                     /\ store'[c] = store[c]]_vars

\* C20 witness: a Lazy bound to a key was written through get_mut and then
\* written back: the store holds the new value at the key.
C20_Witness ==
    /\ lz_last.op = "push_forward"
    /\ lz_cell.key = Some(BaseKey)
    /\ lz_cell.entry # None
    /\ Entry_is_mutated(lz_cell.entry[1])
    /\ Entry_value(lz_cell.entry[1]) = Some(42)
    /\ Holds(store, BaseKey, 42)
    /\ Len(issued) = 1
    /\ ReadsOf(reads, BaseKey) = 1

\* What the cell can give: the cached value, else what the store holds at
\* the bound key; None when there is neither.
Available(cell, st) ==
    IF cell.entry # None THEN Entry_value(cell.entry[1])
    ELSE IF cell.key = None THEN None
    ELSE Option_pull_forward(st, cell.key[1], footprint).value

\* C21: Lazy::get and Lazy::get_mut return the value when the cell holds
\* one or can load one, and panic otherwise (no key and nothing cached, or
\* a key at which the store holds nothing); they never return an absent
\* result.
C21_GetNeverAbsent ==
    [][(LzDid("get") \/ LzDid("get_mut")) =>
          /\ lz_panicked' <=> Available(lz_cell, store) = None
          /\ ~lz_panicked' =>
                 /\ lz_last'.ret # None
                 /\ lz_last'.ret = Available(lz_cell, store)]_vars

\* C21 witness: get on a Lazy bound to a key at which the store holds
\* nothing panicked after the load.
C21_Witness ==
    /\ lz_last.op = "get"
    /\ lz_panicked
    /\ lz_cell.key = Some(BaseKey)
    /\ lz_cell.entry = Some(Entry_new(None, "Preserved"))
    /\ BaseKey \notin DOMAIN store
    /\ ReadsOf(reads, BaseKey) = 1

LzIsMutated(cell) == cell.entry # None /\ Entry_is_mutated(cell.entry[1])

\* The operation name of T applied to the value x, and to the value y of
\* the other operand where it takes one.
OnValue(name, x, y) ==
    CASE name = "eq" -> Some(T_eq(x, y))
      [] name = "partial_cmp" -> Some(T_partial_cmp(x, y))
      [] name = "lt" -> Some(T_lt(x, y))
      [] name = "le" -> Some(T_le(x, y))
      [] name = "ge" -> Some(T_ge(x, y))
      [] name = "gt" -> Some(T_gt(x, y))
      [] name = "cmp" -> Some(T_cmp(x, y))
      [] name = "fmt" -> Some(T_fmt(x))
      [] name = "hash" -> Some(T_hash(x, HasherState))
      [] OTHER -> Some(x)

\* C22: eq, partial_cmp (and lt, le, ge, gt), cmp, hash, fmt (Display),
\* deref, as_ref and borrow on a Lazy give what the same operation gives on the value Lazy::get
\* returns, for eager and lazy cells alike, load the cell as get does and
\* do not mark the entry Mutated; deref_mut, as_mut and borrow_mut act as
\* get_mut does and leave the entry Mutated.
C22_Transparent ==
    [][/\ (/\ lz_nops' = lz_nops + 1
           /\ lz_last'.op \in {"eq", "partial_cmp", "lt", "le", "ge", "gt",
                               "cmp"}) =>
              LET self == Lazy_get(lz_cell, store, reads)
                  them == Lazy_get(lz_last'.w[1], store, self.reads)
              IN  /\ lz_cell' = self.cell
                  /\ LzIsMutated(lz_cell') <=> LzIsMutated(lz_cell)
                  /\ lz_panicked' <=> (self.panic \/ them.panic)
                  /\ ~lz_panicked' =>
                         lz_last'.ret = OnValue(lz_last'.op, self.ret[1],
                                                them.ret[1])
       /\ (/\ lz_nops' = lz_nops + 1
           /\ lz_last'.op \in {"fmt", "hash", "deref", "as_ref", "borrow"}) =>
              LET self == Lazy_get(lz_cell, store, reads)
              IN  /\ lz_cell' = self.cell
                  /\ reads' = self.reads
                  /\ LzIsMutated(lz_cell') <=> LzIsMutated(lz_cell)
                  /\ lz_panicked' <=> self.panic
                  /\ ~lz_panicked' =>
                         lz_last'.ret = OnValue(lz_last'.op, self.ret[1],
                                                self.ret[1])
       /\ (/\ lz_nops' = lz_nops + 1
           /\ lz_last'.op \in {"deref_mut", "as_mut", "borrow_mut"}) =>
              LET self == Lazy_get_mut(lz_cell, store, reads, lz_last'.w)
              IN  /\ lz_cell' = self.cell
                  /\ reads' = self.reads
                  /\ lz_panicked' <=> self.panic
                  /\ lz_last'.ret = self.ret
                  /\ lz_cell'.entry # None => LzIsMutated(lz_cell')
                  /\ ~lz_panicked' => LzIsMutated(lz_cell')]_vars

\* C22 witness: a Lazy bound to a key, loaded by eq and still Preserved,
\* compared equal to Lazy::new(7).
C22_Witness ==
    /\ lz_last.op = "eq"
    /\ lz_last.w = Some(Lazy_new(7))
    /\ lz_last.ret = Some(TRUE)
    /\ ~lz_panicked
    /\ lz_cell.key = Some(BaseKey)
    /\ lz_cell.entry = Some(Entry_new(Some(7), "Preserved"))

\* C23: Lazy::lazy(key) issues no store read; the first get or get_mut
\* issues exactly one read, at the bound key, and every later access issues
\* none; a Lazy made by new, from or default never issues a read, and get
\* returns the value it was made with.
C23_ReadsDeferredOnce ==
    /\ lz_nops = 0 => reads = <<>>
    /\ [][/\ (/\ lz_nops' = lz_nops + 1
              /\ lz_last'.op \in {"get", "get_mut"}) =>
                 /\ reads' = IF lz_cell.entry = None /\ lz_cell.key # None
                             THEN CountRead(reads, lz_cell.key[1])
                             ELSE reads
                 /\ lz_cell.entry # None => lz_cell'.entry # None
                 /\ ~lz_panicked' => lz_cell'.entry # None
                 /\ (lz_last.op = "new" /\ lz_last'.op = "get") =>
                        /\ ~lz_panicked'
                        /\ lz_last'.ret = lz_last.w
                        /\ reads' = <<>>
          /\ \A v \in Vals \cup {T_default} :
                 /\ Lazy_from(v) = Lazy_new(v)
                 /\ Lazy_get(Lazy_new(v), store, reads)
                        = LzOutcome(FALSE, Lazy_new(v), reads, Some(v))
          /\ Lazy_get(Lazy_default, store, reads)
                 = LzOutcome(FALSE, Lazy_default, reads, Some(T_default))]_vars

\* C23 witness: the second access to a Lazy bound to a key, after a first
\* one that loaded it through a mutable accessor: one read at the key.
C23_Witness ==
    /\ lz_nops = 2
    /\ lz_last.op = "get"
    /\ ~lz_panicked
    /\ lz_cell.key = Some(BaseKey)
    /\ LzIsMutated(lz_cell)
    /\ DOMAIN reads = {BaseKey}
    /\ reads[BaseKey] = 1

(***************************************************************************)
(* Further properties of LazyArray.                                        *)
(***************************************************************************)
\* The cells of slot i of an array bound to a key.
CellsOf(i) == key_at(i)[1]..(key_at(i)[1] + footprint - 1)

\* C24: for distinct in-bounds indices the cell ranges
\* [key_at(i), key_at(i) + footprint(T)) are disjoint, every range lies in
\* [base_key, base_key + 32 * footprint(T)), and this is the footprint the
\* array declares, so a key cursor is past the last slot after the array.
\* The key and the footprint never change, so the ranges are compared in
\* the states before the first operation.
C24_DisjointKeyRanges ==
    /\ [][key' = key /\ footprint' = footprint]_vars
    /\ (key # None /\ nops = 0) =>
           /\ \A i \in Slots : key_at(i) # None
           /\ \A i \in Slots : \A j \in Slots :
                  i # j => CellsOf(i) \cap CellsOf(j) = {}
           /\ \A i \in Slots :
                  CellsOf(i) \subseteq
                      key[1]..(key[1] + 32 * footprint - 1)
           /\ LazyArray_footprint = 32 * footprint
           /\ key[1] + LazyArray_footprint
                  > key_at(CAPACITY - 1)[1] + footprint - 1

\* C24 witness: an array of 33-cell elements loaded slot 5 and slot 31 from
\* their two key ranges.
C24_Witness ==
    /\ key # None
    /\ footprint = 33
    /\ DOMAIN reads = {key_at(5)[1], key_at(31)[1]}
    /\ IsPreserved(entries, 5)
    /\ IsPreserved(entries, 31)

(***************************************************************************)
(* Further properties of Bitvec.                                           *)
(***************************************************************************)
\* C26, for the lengths up to MaxLen:
\* in every state reached from an empty vector by push, pop and set or
\* reset through get_mut, first_mut or last_mut, every bit at an index
\* >= len() is 0, so that the bit a push(false) adds reads as false.
C26_ZeroTail ==
    /\ \A i \in Ones(bv) : i < Bitvec_len(bv)
    /\ ~bv_panicked =>
           LET pushed == Bitvec_push(bv, FALSE, overflow_checks)
           IN  /\ ~pushed.panic
               /\ Bitvec_get(pushed.bv, Bitvec_len(bv)).ret = Some(FALSE)

\* C26 witness: the last bit of the first pack was set through last_mut
\* while the second pack, allocated before a pop, lies past the length.
C26_Witness ==
    /\ bv_last.op = "last_mut"
    /\ bv_last.act = "set"
    /\ bv_popped
    /\ Bitvec_len(bv) = 256
    /\ Capacity(bv) = 512
    /\ 255 \in Ones(bv)

\* C28: write-back leaves the values and the states of all 32 slots as they
\* are (a Mutated slot stays Mutated), so a second write-back right after
\* the first issues the same store operations and leaves the store as the
\* first left it.
C28_WriteBackKeepsCache ==
    [][Did("push_forward") =>
          /\ entries' = entries
          /\ MutatedSlots(entries') = MutatedSlots(entries)
          /\ LET second == push_forward(entries', store', last'.cursor)
             IN  /\ second.issued = issued'
                 /\ second.store = store']_vars

\* C28 witness: a write-back that wrote slot 31 and left it Mutated.
C28_Witness ==
    /\ last.op = "push_forward"
    /\ key # None
    /\ IsMutated(entries, 31)
    /\ Entry_value(entries[31][1]) = Some(42)
    /\ Holds(store, key_at(31)[1], 42)
    /\ issued # <<>>

\* Write-back with the pointer at key c: the value of every Mutated slot i
\* that holds one is in the store at c + i * footprint(T) afterwards, and
\* that key is key_at(i) exactly when c is the base key of the array.
PersistedAtCursor ==
    Did("push_forward") =>
        LET c == last'.cursor
        IN  \A i \in MutatedSlots(entries) :
                LET k == c + i * footprint
                    v == Entry_value(entries[i][1])
                IN  /\ v # None => Holds(store', k, v[1])
                    /\ key # None => (k = key_at(i)[1] <=> c = key[1])

\* C29: write-back addresses slot i at (key of the pointer it is given)
\* + i * footprint(T), with or without a base key: every Mutated slot is
\* persisted there, and the address is key_at(i) exactly when the pointer
\* stands at the array's base key.
C29_WriteBackAtCursor == [][PersistedAtCursor]_vars

\* C25 for the lengths up to MaxLen: the pack
\* index split_index gives for every i < len() is below the number of
\* allocated packs, so the expect in get_bits256 / get_bits256_mut holds,
\* and neither the expect on last_mut() in push nor the one in pop fires.
C25_NoInternalPanic ==
    /\ ~bv_panicked
    /\ \A i \in 0..(Bitvec_len(bv) - 1) :
           /\ Bitvec_split_index(bv, i) # None
           /\ Bitvec_split_index(bv, i)[1].index < StorageVec_len(bv.bits)
           /\ ~Bitvec_get_bits256(bv, i).panic
           /\ ~Bitvec_get_bits256_mut(bv, i).panic
    /\ \A value \in BOOLEAN : ~Bitvec_push(bv, value, overflow_checks).panic
    /\ ~Bitvec_pop(bv).panic

\* C25 witness: push(true) took the branch that does not grow and set the
\* last bit of the first pack through last_mut.
C25_Witness ==
    /\ bv_last.op = "push"
    /\ bv_last.value
    /\ ~bv_panicked
    /\ ~bv_popped
    /\ Bitvec_len(bv) = 256
    /\ Capacity(bv) = 256
    /\ 255 \in Ones(bv)

\* C27: the arithmetic of Bitvec does not overflow within the 32-bit length
\* range: for every number of packs needed to hold a length up to u32::MAX
\* the product of capacity() does not wrap (and does not panic), capacity()
\* is at least len(), and push appends a pack exactly when every allocated
\* pack is full.
C27_NoOverflow ==
    LET cap == BitvecTop_capacity(top, overflow_checks)
    IN  top.packs <= U32Packs =>
        /\ ~cap.panic
        /\ cap.value = Wide(top.packs, 0)
        /\ Wide_ge(cap.value, BitvecTop_len(top))
        /\ \A value \in BOOLEAN :
               BitvecTop_len(top) # U32_MAX =>
                   LET out == BitvecTop_push(top, value, overflow_checks)
                   IN  /\ out.panic = "none"
                       /\ out.bv.packs =
                              IF BitvecTop_len(top) = Wide(top.packs, 0)
                              THEN top.packs + 1 ELSE top.packs

\* C25: the internal assertions of Bitvec never fire: in every state reached
\* by push and pop the pack index of every i < len() is below the number of
\* allocated packs (len() - 1 has the largest), and neither the expect on
\* last_mut() in the non-growing branch of push nor the one in pop fires.
C25_NoExpectFires ==
    /\ top_last.panic # "expect"
    /\ ~BitvecTop_is_empty(top) =>
           Wide_pred(BitvecTop_len(top)).hi < top.packs
    /\ \A value \in BOOLEAN :
           BitvecTop_push(top, value, overflow_checks).panic # "expect"
    /\ BitvecTop_pop(top).panic # "expect"

(***************************************************************************)
(* The Bitvec claims at the top of the u32 length range.                   *)
(***************************************************************************)
\* The number of packs that hold x bits: ceil(x / 256).
PacksFor(x) == IF x.lo = 0 THEN x.hi ELSE x.hi + 1

\* The 1 bits of b at the indices below n.
TopLowerOnes(b, n) == {o \in b.ones : ~Wide_ge(o, n)}

TopDid(name) == top_last'.op = name

\* C13: in every state reached by push and pop, capacity() is a multiple of
\* 256 and capacity() >= len(), i.e. len() <= 256 * (number of allocated
\* packs).
C13_CapacityCoversLenAtTop ==
    LET cap == BitvecTop_capacity(top, overflow_checks)
    IN  /\ ~cap.panic
        /\ cap.value.lo = 0
        /\ Wide_ge(cap.value, BitvecTop_len(top))
        /\ Wide_ge(Wide(top.packs, 0), BitvecTop_len(top))

\* C15: growth is chunked by 256: a push on a vector built by n pushes and
\* no pop, which has the ceil(n / 256) packs that n bits need, leaves
\* len() = n + 1 and capacity() = 256 * ceil((n + 1) / 256), and appends a
\* pack only when len() = capacity().
C15_GrowthByPacksAtTop ==
    [][(TopDid("push") /\ top.packs = PacksFor(BitvecTop_len(top))) =>
          LET cap == BitvecTop_capacity(top', overflow_checks)
          IN  /\ top_last'.panic = "none"
              /\ BitvecTop_len(top') = Wide_succ(BitvecTop_len(top))
              /\ ~cap.panic
              /\ cap.value = Wide(PacksFor(BitvecTop_len(top')), 0)
              /\ top'.packs # top.packs =>
                     BitvecTop_len(top) = Wide(top.packs, 0)]_vars

\* C16: in every state reached by push and pop, push(v) followed by pop()
\* returns Some(v), restores len() and leaves every bit at an index below
\* that length unchanged, for v = false and for v = true.
C16_PushPopInverseAtTop ==
    \A v \in BOOLEAN :
        LET pushed == BitvecTop_push(top, v, overflow_checks)
            popped == BitvecTop_pop(pushed.bv)
        IN  /\ pushed.panic = "none"
            /\ popped.panic = "none"
            /\ popped.ret = Some(v)
            /\ BitvecTop_len(popped.bv) = BitvecTop_len(top)
            /\ TopLowerOnes(popped.bv, BitvecTop_len(top))
                   = TopLowerOnes(top, BitvecTop_len(top))

\* C17: pop on an empty vector returns None and changes nothing; on a
\* non-empty vector it returns the bit at len() - 1, sets that bit to 0,
\* decreases len() by 1, leaves the bits at lower indices unchanged and
\* does not change capacity(); across every operation capacity() never
\* decreases.
C17_PopAndCapacityAtTop ==
    [][/\ LET before == BitvecTop_capacity(top, overflow_checks)
              after == BitvecTop_capacity(top', overflow_checks)
          IN  /\ ~before.panic
              /\ ~after.panic
              /\ Wide_ge(after.value, before.value)
       /\ (TopDid("pop") /\ BitvecTop_is_empty(top)) =>
              /\ top_last'.ret = None
              /\ top' = top
       /\ (TopDid("pop") /\ ~BitvecTop_is_empty(top)) =>
              LET at == Wide_pred(BitvecTop_len(top))
              IN  /\ top_last'.panic = "none"
                  /\ top_last'.ret = Some(at \in top.ones)
                  /\ at \notin top'.ones
                  /\ BitvecTop_len(top') = at
                  /\ TopLowerOnes(top', at) = TopLowerOnes(top, at)
                  /\ top'.packs = top.packs]_vars

\* C26: zero tail: in every state reached by push and pop every bit of every
\* allocated pack at an index >= len() is 0.
C26_ZeroTailAtTop ==
    \A o \in top.ones : ~Wide_ge(o, BitvecTop_len(top))
====
